---- MODULE Spec2Model ----
(***************************************************************************)
(* Paper-trading execution engine and tournament ranking engine of the     *)
(* Nifty-Tournament backend.                                               *)
(*                                                                         *)
(* Money:  Python floats are modelled as exact rationals [n, d] in lowest  *)
(*         terms (d > 0); wallet balances only ever move by price x        *)
(*         quantity with integer inputs and stay integers.                 *)
(* None:   an Optional value is a sequence of length 0 (None) or 1.        *)
(* Tables: committed rows of wallets, paper_orders, paper_positions,       *)
(*         tournament_participants and tournament_rankings.  A handler     *)
(*         that raises before db.commit() leaves the tables untouched      *)
(*         (db.close() in get_db rolls the session back).                  *)
(***************************************************************************)
EXTENDS Integers, Sequences, FiniteSets, TLC

VARIABLES
    wallets,        \* wallets table: user_id -> balance (users that own a wallet)
    orders,         \* paper_orders table: sequence of committed order rows
    positions,      \* paper_positions table: sequence of committed position rows
    nextOrderId,    \* paper_orders.id sequence (consumed by db.flush())
    sess,           \* per request: the SQLAlchemy session of a place_order in flight
    last,           \* the last completed call: inputs, outcome and what it saw
    participants,   \* tournament_participants rows of the tournament
    rankings,       \* tournament_rankings rows of the tournament
    current_participants, \* Tournament.current_participants
    joinClock,      \* source of joined_at (server_default now())
    tournament,     \* the tournaments row: type, status, limits
    teams,          \* teams rows of the tournament
    members,        \* team_members rows
    current_candles, \* CandleBuilder.current_candles: symbol -> in-progress candle
    last_tick,      \* CandleBuilder.last_tick: symbol -> (price, volume)
    ticks,          \* the ticks fed to process_tick so far, with what it returned
    active_connections, \* ConnectionManager.active_connections: the connected user ids
    subscriptions,  \* ConnectionManager.subscriptions: symbol -> set of user ids
    subscribed_tokens, \* ZerodhaTickerService.subscribed_tokens
    symbol_to_token, \* ZerodhaTickerService.symbol_to_token
    token_to_symbol, \* ZerodhaTickerService.token_to_symbol
    trade_pnls      \* history: joined_at of a participant row -> the trade P&Ls
                    \* update_stats was called with on that row, in order

tradeVars == <<wallets, orders, positions, nextOrderId, sess>>
tourVars  == <<participants, rankings, current_participants, joinClock,
               tournament, teams, members>>
candleVars == <<current_candles, last_tick, ticks>>
wsVars    == <<active_connections, subscriptions, subscribed_tokens,
               symbol_to_token, token_to_symbol>>
vars      == <<wallets, orders, positions, nextOrderId, sess, last,
               participants, rankings, current_participants, joinClock,
               tournament, teams, members, current_candles, last_tick, ticks,
               active_connections, subscriptions, subscribed_tokens,
               symbol_to_token, token_to_symbol, trade_pnls>>

(***************************************************************************)
(* Bounds and input sets                                                   *)
(***************************************************************************)
MaxOrders == 2
MaxConcOrders == 3
MaxJoins == 2
MaxTrades == 1

INITIAL_VIRTUAL_BALANCE == 100000
MAX_POSITION_SIZE == 50000

Users       == {1}             \* users that registered (each owns a wallet)
Strangers   == {2}             \* a user id with no wallet row
Symbols     == {"NIFTY"}
Prices      == {0, 100, 120}   \* what the oracle may return (an LTP of 0 included)
LimitPrices == {120}
Quantities  == {10, 500}
Procs       == {1, 2}          \* concurrent requests

None    == << >>
Some(x) == << x >>
IsNone(o) == o = << >>
Truthy(o) == o # << >> /\ o[1] # 0      \* Python truthiness of Optional[float]

(***************************************************************************)
(* Exact rationals standing for Python floats                              *)
(***************************************************************************)
Abs(x) == IF x < 0 THEN -x ELSE x
Sign(x) == IF x > 0 THEN 1 ELSE IF x < 0 THEN -1 ELSE 0
Min(a, b) == IF a <= b THEN a ELSE b

RECURSIVE GCD(_, _)
GCD(a, b) == IF b = 0 THEN a ELSE GCD(b, a % b)

RNorm(n, d) ==
    LET s == IF d < 0 THEN -1 ELSE 1
        g == GCD(Abs(n), Abs(d))
    IN  [n |-> (s * n) \div g, d |-> (s * d) \div g]

R(i) == [n |-> i, d |-> 1]
RAdd(a, b) == RNorm(a.n * b.d + b.n * a.d, a.d * b.d)
RSub(a, b) == RNorm(a.n * b.d - b.n * a.d, a.d * b.d)
RMulI(a, i) == RNorm(a.n * i, a.d)
RDivI(a, i) == RNorm(a.n, a.d * i)

(***************************************************************************)
(* Wallet (models/wallet.py)                                               *)
(***************************************************************************)
can_afford(balance, amount) == balance >= amount

\* deduct without the affordability guard
deduct_unguarded(balance, amount) == [balance |-> balance - amount, ok |-> TRUE]

\* Wallet.deduct: returns the new balance and the boolean it returns
deduct(balance, amount) ==
    IF can_afford(balance, amount)
    THEN [balance |-> balance - amount, ok |-> TRUE]
    ELSE [balance |-> balance, ok |-> FALSE]

\* add that debits instead of crediting
add_debits(balance, amount) == balance - amount

\* Wallet.add
add(balance, amount) == balance + amount

(***************************************************************************)
(* Orders (models/paper_order.py, schemas/paper_trading.py)                *)
(***************************************************************************)
OrderType == {"MARKET", "LIMIT", "STOP_LOSS", "STOP_LOSS_MARKET"}
OrderSide == {"BUY", "SELL"}
TerminalStatuses == {"EXECUTED", "CANCELLED", "REJECTED"}
InstrumentType == {"INDEX", "OPTION_CE", "OPTION_PE"}   \* members of the enum
InstrumentTypesTraded == {"INDEX"}

\* OrderCreate: quantity > 0, price > 0 when given, LIMIT orders carry a price
OrderCreate ==
    { [symbol |-> s, instrument_type |-> it, order_type |-> t, order_side |-> sd,
       quantity |-> q, price |-> pr] :
         s \in Symbols, it \in InstrumentTypesTraded, t \in OrderType,
         sd \in OrderSide, q \in Quantities,
         pr \in {None} \cup {Some(x) : x \in LimitPrices} }

ValidOrderCreate ==
    { od \in OrderCreate : (od.order_type = "LIMIT") <=> (od.price # None) }

\* the requests the model places: every MARKET and LIMIT request, the
\* stop-loss requests of the smaller quantity; a user without a wallet
\* places MARKET requests of the smaller quantity
UserOrders ==
    { od \in ValidOrderCreate :
        od.order_type \in {"STOP_LOSS", "STOP_LOSS_MARKET"} => od.quantity = 10 }
StrangerOrders ==
    { od \in ValidOrderCreate : od.order_type = "MARKET" /\ od.quantity = 10 }
OracleAnswers == {None} \cup {Some(x) : x \in Prices}

calculate_order_value_oracle(od, current_price) ==
    current_price * od.quantity

\* PaperTradingEngine._calculate_order_value
calculate_order_value(od, current_price) ==
    IF od.order_type = "LIMIT" /\ Truthy(od.price)
    THEN od.price[1] * od.quantity
    ELSE current_price * od.quantity

\* PaperOrder(...) as constructed by place_order, status PENDING
NewOrder(id, user_id, od) ==
    [id |-> id, user_id |-> user_id, symbol |-> od.symbol,
     instrument_type |-> od.instrument_type,
     order_type |-> od.order_type, order_side |-> od.order_side,
     quantity |-> od.quantity, price |-> od.price,
     executed_price |-> None, executed_quantity |-> 0, status |-> "PENDING"]

(***************************************************************************)
(* Positions (models/paper_position.py)                                    *)
(***************************************************************************)
\* self.ltp or self.current_price
MarkPrice(p) == IF Truthy(p.ltp) THEN p.ltp ELSE p.current_price

\* PaperPosition.calculate_unrealized_pnl.  The list literal
\* [InstrumentType.CE, InstrumentType.PE] names members the enum does not
\* have, so evaluating it raises AttributeError whenever a price is set.
calculate_unrealized_pnl(p) ==
    LET price == MarkPrice(p) IN
    IF ~Truthy(price) THEN [raised |-> FALSE, value |-> R(0)]
    ELSE IF ~({"CE", "PE"} \subseteq InstrumentType)
         THEN [raised |-> TRUE, value |-> R(0)]
    ELSE IF p.instrument_type \in {"CE", "PE"}
         THEN [raised |-> FALSE,
               value |-> RMulI(RMulI(RSub(R(price[1]), p.average_price), p.multiplier),
                               IF p.quantity > 0 THEN 1 ELSE -1)]
    ELSE [raised |-> FALSE,
          value |-> RMulI(RSub(R(price[1]), p.average_price), p.quantity)]

\* PaperPosition(...) as constructed for a first fill
NewPosition(order) ==
    [id |-> order.id, user_id |-> order.user_id, symbol |-> order.symbol,
     instrument_type |-> order.instrument_type,
     quantity |-> IF order.order_side = "BUY" THEN order.executed_quantity
                  ELSE -order.executed_quantity,
     average_price |-> R(order.executed_price[1]),
     ltp |-> None,
     current_price |-> order.executed_price,
     realized_pnl |-> R(0), unrealized_pnl |-> R(0), multiplier |-> 1]

\* lines 195-197 of _update_position: refresh the mark and the unrealized P&L
RefreshMark(p, order) ==
    LET p1 == [p EXCEPT !.current_price = order.executed_price]
        u  == calculate_unrealized_pnl(p1)
    IN  IF u.raised
        THEN [raised |-> TRUE, op |-> "update", row |-> p1]
        ELSE [raised |-> FALSE, op |-> "update",
              row |-> [p1 EXCEPT !.unrealized_pnl = u.value]]

\* the BUY branch of _update_position on an existing row
UpdateOnBuy(p, order) ==
    LET q  == order.executed_quantity
        px == order.executed_price[1]
        total_cost == RAdd(RMulI(p.average_price, p.quantity), R(q * px))
        qty1 == p.quantity + q
        avg1 == IF qty1 # 0 THEN RDivI(total_cost, qty1) ELSE R(0)
    IN  RefreshMark([p EXCEPT !.quantity = qty1, !.average_price = avg1], order)

\* the SELL branch of _update_position on an existing row
UpdateOnSellKeepsRow(p, order) ==
    LET q  == order.executed_quantity
        px == order.executed_price[1]
    IN  IF p.quantity >= q
        THEN LET realized_pnl == RMulI(RSub(R(px), p.average_price), q)
                 p1 == [p EXCEPT !.realized_pnl = RAdd(p.realized_pnl, realized_pnl),
                                 !.quantity = p.quantity - q]
             IN  RefreshMark(p1, order)
        ELSE RefreshMark([p EXCEPT !.quantity = -(q - p.quantity),
                                   !.average_price = R(px)], order)

UpdateOnSell(p, order) ==
    LET q  == order.executed_quantity
        px == order.executed_price[1]
    IN  IF p.quantity >= q
        THEN LET realized_pnl == RMulI(RSub(R(px), p.average_price), q)
                 p1 == [p EXCEPT !.realized_pnl = RAdd(p.realized_pnl, realized_pnl),
                                 !.quantity = p.quantity - q]
             IN  IF p1.quantity = 0
                 THEN [raised |-> FALSE, op |-> "delete", row |-> p1]
                 ELSE RefreshMark(p1, order)
        ELSE RefreshMark([p EXCEPT !.quantity = -(q - p.quantity),
                                   !.average_price = R(px)], order)

\* PaperTradingEngine._update_position; found is what .first() returned
update_position(found, order) ==
    IF IsNone(found)
    THEN [raised |-> FALSE, op |-> "insert", row |-> NewPosition(order)]
    ELSE IF order.order_side = "BUY"
         THEN UpdateOnBuy(found[1], order)
         ELSE UpdateOnSell(found[1], order)

\* PaperTradingEngine._execute_order on the session's objects: the order, the
\* wallet balance loaded in the session and the position row the query found
execute_order(order, execution_price, balance, found) ==
    LET o1 == [order EXCEPT !.executed_price = Some(execution_price),
                            !.executed_quantity = order.quantity,
                            !.status = "EXECUTED"]
        order_value == execution_price * order.quantity
        bal1 == IF order.order_side = "BUY"
                THEN deduct(balance, order_value).balance
                ELSE add(balance, order_value)
        up == update_position(found, o1)
    IN  [raised |-> up.raised, order |-> o1, balance |-> bal1,
         posop |-> up.op, row |-> up.row]

ValidateOrderNoLimit(wallet, od, oracle) ==
    IF IsNone(wallet) THEN "WalletNotFound"
    ELSE IF IsNone(oracle) THEN "PriceUnavailable"
    ELSE IF od.order_side = "BUY"
            /\ ~can_afford(wallet[1], calculate_order_value(od, oracle[1]))
         THEN "InsufficientBalance"
    ELSE "ok"

\* the checks of place_order before the order row is created (lines 58-78)
ValidateOrder(wallet, od, oracle) ==
    IF IsNone(wallet) THEN "WalletNotFound"
    ELSE IF IsNone(oracle) THEN "PriceUnavailable"
    ELSE IF od.order_side = "BUY"
            /\ ~can_afford(wallet[1], calculate_order_value(od, oracle[1]))
         THEN "InsufficientBalance"
    ELSE IF calculate_order_value(od, oracle[1]) > MAX_POSITION_SIZE
         THEN "PositionLimitExceeded"
    ELSE "ok"

(***************************************************************************)
(* Tables and the session of one place_order request                       *)
(***************************************************************************)
\* db.query(Wallet).filter(Wallet.user_id == user_id).first()
WalletOf(tbl, u) == IF u \in DOMAIN tbl THEN Some(tbl[u]) ELSE None

\* db.query(PaperPosition).filter(user_id ==, symbol ==).first(): any matching
\* row (the query has no ORDER BY), None when there is none
FirstPosition(tbl, u, sym) ==
    LET m == { i \in 1..Len(tbl) : tbl[i].user_id = u /\ tbl[i].symbol = sym }
    IN  IF m = {} THEN {None} ELSE { Some(tbl[i]) : i \in m }

HasRow(tbl, id) == \E i \in 1..Len(tbl) : tbl[i].id = id
DropRow(tbl, id) == SelectSeq(tbl, LAMBDA r : r.id # id)
PutRow(tbl, row) == [i \in 1..Len(tbl) |-> IF tbl[i].id = row.id THEN row ELSE tbl[i]]

Idle == [pc |-> "idle"]

\* place_order lines 58-97: load the wallet, fetch the price, validate,
\* create the PENDING order and flush it
BeginSession(tbl, id, u, od, oracle) ==
    LET wallet == WalletOf(tbl, u)
        err == ValidateOrder(wallet, od, oracle)
    IN  [pc |-> IF err = "ok" THEN "flushed" ELSE "failed",
         result |-> err, user_id |-> u, od |-> od, oracle |-> oracle,
         loaded |-> wallet, balance |-> wallet,
         order |-> IF err = "ok" THEN Some(NewOrder(id, u, od)) ELSE None,
         found |-> None, posop |-> "none", row |-> None]

ExecSessionFillsAll(s, found) ==
    LET ex == execute_order(s.order[1], s.oracle[1], s.balance[1], found)
    IN  [s EXCEPT !.pc = IF ex.raised THEN "failed" ELSE "ready",
                  !.result = IF ex.raised THEN "AttributeError" ELSE "ok",
                  !.order = Some(ex.order), !.balance = Some(ex.balance),
                  !.found = found, !.posop = ex.posop, !.row = Some(ex.row)]

\* place_order lines 99-103: execute a MARKET order, leave any other OPEN
ExecSession(s, found) ==
    IF s.od.order_type = "MARKET"
    THEN LET ex == execute_order(s.order[1], s.oracle[1], s.balance[1], found)
         IN  [s EXCEPT !.pc = IF ex.raised THEN "failed" ELSE "ready",
                       !.result = IF ex.raised THEN "AttributeError" ELSE "ok",
                       !.order = Some(ex.order), !.balance = Some(ex.balance),
                       !.found = found, !.posop = ex.posop, !.row = Some(ex.row)]
    ELSE [s EXCEPT !.pc = "ready", !.order = Some([s.order[1] EXCEPT !.status = "OPEN"])]

\* db.commit() of a session: an UPDATE of a row that is gone raises
\* StaleDataError and the transaction is rolled back
CommitFails(s, posTbl) == s.posop = "update" /\ ~HasRow(posTbl, s.row[1].id)

CommitWallets(s, tbl) ==
    IF s.balance # s.loaded THEN [tbl EXCEPT ![s.user_id] = s.balance[1]] ELSE tbl

CommitPositions(s, tbl) ==
    CASE s.posop = "insert" -> Append(tbl, s.row[1])
      [] s.posop = "update" -> PutRow(tbl, s.row[1])
      [] s.posop = "delete" -> DropRow(tbl, s.row[1].id)
      [] OTHER -> tbl

\* what a finished place_order call leaves in `last`
CallRecord(s, result) ==
    [op |-> "place_order", user_id |-> s.user_id, od |-> s.od, oracle |-> s.oracle,
     result |-> result, pre_balance |-> s.loaded, pre_pos |-> s.found,
     order |-> IF result = "ok" THEN s.order ELSE None,
     session_pos |-> s.row, posop |-> s.posop]

NoCall == [op |-> "init"]

(***************************************************************************)
(* The engine, one request at a time                                       *)
(***************************************************************************)
TradeInit ==
    /\ wallets = [u \in Users |-> INITIAL_VIRTUAL_BALANCE]
    /\ orders = << >>
    /\ positions = << >>
    /\ nextOrderId = 1
    /\ sess = [p \in Procs |-> Idle]
    /\ last = NoCall

TourIdle ==
    /\ participants = << >>
    /\ rankings = << >>
    /\ current_participants = 0
    /\ joinClock = 0
    /\ tournament = [tournament_type |-> "SOLO", status |-> "REGISTRATION_OPEN",
                     team_size |-> None, max_participants |-> None,
                     starting_balance |-> 100000, before_deadline |-> TRUE]
    /\ teams = << >>
    /\ members = {}

place_order_no_rollback(u, od, oracle) ==
    /\ LET s1 == BeginSession(wallets, nextOrderId, u, od, oracle) IN
       /\ s1.pc = "failed" \/ nextOrderId <= MaxOrders
       /\ IF s1.pc = "failed"
          THEN /\ last' = CallRecord(s1, s1.result)
               /\ UNCHANGED <<wallets, orders, positions, nextOrderId>>
          ELSE \E found \in FirstPosition(positions, u, od.symbol) :
               LET s2 == ExecSession(s1, IF od.order_type = "MARKET" THEN found ELSE None) IN
               /\ nextOrderId' = nextOrderId + 1
               /\ IF s2.pc = "failed"
                  THEN /\ last' = CallRecord(s2, s2.result)
                       /\ wallets' = CommitWallets(s2, wallets)
                       /\ orders' = Append(orders, s2.order[1])
                       /\ UNCHANGED positions
                  ELSE /\ wallets' = CommitWallets(s2, wallets)
                       /\ orders' = Append(orders, s2.order[1])
                       /\ positions' = CommitPositions(s2, positions)
                       /\ last' = CallRecord(s2, "ok")
    /\ UNCHANGED <<sess, tourVars, candleVars, wsVars, trade_pnls>>

\* PaperTradingEngine.place_order, the whole call
place_order(u, od, oracle) ==
    /\ LET s1 == BeginSession(wallets, nextOrderId, u, od, oracle) IN
       /\ s1.pc = "failed" \/ nextOrderId <= MaxOrders
       /\ IF s1.pc = "failed"
          THEN /\ last' = CallRecord(s1, s1.result)
               /\ UNCHANGED <<wallets, orders, positions, nextOrderId>>
          ELSE \E found \in FirstPosition(positions, u, od.symbol) :
               LET s2 == ExecSession(s1, IF od.order_type = "MARKET" THEN found ELSE None) IN
               /\ nextOrderId' = nextOrderId + 1
               /\ IF s2.pc = "failed"
                  THEN /\ last' = CallRecord(s2, s2.result)
                       /\ UNCHANGED <<wallets, orders, positions>>
                  ELSE /\ wallets' = CommitWallets(s2, wallets)
                       /\ orders' = Append(orders, s2.order[1])
                       /\ positions' = CommitPositions(s2, positions)
                       /\ last' = CallRecord(s2, "ok")
    /\ UNCHANGED <<sess, tourVars, candleVars, wsVars, trade_pnls>>

CancellableExecuted(status) == status \in {"PENDING", "OPEN", "EXECUTED"}
CancellableCancelled(status) == status \in {"PENDING", "OPEN", "CANCELLED"}
\* cancel_order line 260: order.status in [PENDING, OPEN]
Cancellable(status) == status \in {"PENDING", "OPEN"}

cancel_order_any_owner(order_id, u) ==
    /\ LET m == { i \in 1..Len(orders) : orders[i].id = order_id }
           ok == m # {} /\ \A i \in m : Cancellable(orders[i].status)
       IN  /\ orders' = IF ok
                        THEN [i \in 1..Len(orders) |->
                                IF i \in m THEN [orders[i] EXCEPT !.status = "CANCELLED"]
                                ELSE orders[i]]
                        ELSE orders
           /\ last' = [op |-> "cancel_order", user_id |-> u, order_id |-> order_id,
                       result |-> ok,
                       pre_status |-> IF m = {} THEN None
                                      ELSE Some(orders[CHOOSE i \in m : TRUE].status)]
    /\ UNCHANGED <<wallets, positions, nextOrderId, sess, tourVars, candleVars, wsVars, trade_pnls>>

\* PaperTradingEngine.cancel_order
cancel_order(order_id, u) ==
    /\ LET m == { i \in 1..Len(orders) :
                    orders[i].id = order_id /\ orders[i].user_id = u }
           ok == m # {} /\ \A i \in m : Cancellable(orders[i].status)
       IN  /\ orders' = IF ok
                        THEN [i \in 1..Len(orders) |->
                                IF i \in m THEN [orders[i] EXCEPT !.status = "CANCELLED"]
                                ELSE orders[i]]
                        ELSE orders
           /\ last' = [op |-> "cancel_order", user_id |-> u, order_id |-> order_id,
                       result |-> ok,
                       pre_status |-> IF m = {} THEN None
                                      ELSE Some(orders[CHOOSE i \in m : TRUE].status)]
    /\ UNCHANGED <<wallets, positions, nextOrderId, sess, tourVars, candleVars, wsVars, trade_pnls>>

\* CandleBuilder.__init__
CandleInit ==
    /\ current_candles = << >>
    /\ last_tick = << >>
    /\ ticks = << >>

\* ConnectionManager.__init__ and ZerodhaTickerService.__init__
WsInit ==
    /\ active_connections = {}
    /\ subscriptions = << >>
    /\ subscribed_tokens = << >>
    /\ symbol_to_token = << >>
    /\ token_to_symbol = << >>

Init == TradeInit /\ TourIdle /\ CandleInit /\ WsInit /\ trade_pnls = << >>

Next ==
    \/ \E u \in Users, od \in UserOrders, oracle \in OracleAnswers :
          place_order(u, od, oracle)
    \/ \E u \in Strangers, od \in StrangerOrders, oracle \in OracleAnswers :
          place_order(u, od, oracle)
    \/ \E id \in 1..MaxOrders, u \in Users \cup Strangers : cancel_order(id, u)

Spec == Init /\ [][Next]_vars

(***************************************************************************)
(* The engine under concurrent requests.  Each request owns a session; it  *)
(* touches the database when it loads the wallet (line 59), when it        *)
(* queries the position (line 148) and when it commits (line 105).  The    *)
(* code takes no lock and reads without FOR UPDATE, and the second wallet  *)
(* query (line 125) returns the object already loaded in the session.      *)
(* Requests interleave when more than one worker process serves the same   *)
(* database; inside one event loop the handler runs place_order without    *)
(* yielding.                                                               *)
(***************************************************************************)
ConcOrderCreate ==
    { od \in ValidOrderCreate : od.order_type \in {"MARKET", "LIMIT"} /\ od.quantity = 500 }
ConcPrices == {0, 100}

ConcBegin(p, u, od, oracle) ==
    /\ sess[p].pc = "idle"
    /\ LET s1 == BeginSession(wallets, nextOrderId, u, od, oracle) IN
       /\ s1.pc = "failed" \/ nextOrderId <= MaxConcOrders
       /\ IF s1.pc = "failed"
          THEN /\ last' = CallRecord(s1, s1.result)
               /\ UNCHANGED <<sess, nextOrderId>>
          ELSE /\ sess' = [sess EXCEPT ![p] = s1]
               /\ nextOrderId' = nextOrderId + 1
               /\ UNCHANGED last
    /\ UNCHANGED <<wallets, orders, positions, tourVars, candleVars, wsVars, trade_pnls>>

ConcExec(p) ==
    /\ sess[p].pc = "flushed"
    /\ \E found \in FirstPosition(positions, sess[p].user_id, sess[p].od.symbol) :
         LET s2 == ExecSession(sess[p],
                               IF sess[p].od.order_type = "MARKET" THEN found ELSE None) IN
         IF s2.pc = "failed"
         THEN /\ sess' = [sess EXCEPT ![p] = Idle]
              /\ last' = CallRecord(s2, s2.result)
         ELSE /\ sess' = [sess EXCEPT ![p] = s2]
              /\ UNCHANGED last
    /\ UNCHANGED <<wallets, orders, positions, nextOrderId, tourVars, candleVars, wsVars, trade_pnls>>

ConcCommit(p) ==
    /\ sess[p].pc = "ready"
    /\ IF CommitFails(sess[p], positions)
       THEN /\ last' = CallRecord(sess[p], "StaleDataError")
            /\ UNCHANGED <<wallets, orders, positions>>
       ELSE /\ wallets' = CommitWallets(sess[p], wallets)
            /\ orders' = Append(orders, sess[p].order[1])
            /\ positions' = CommitPositions(sess[p], positions)
            /\ last' = CallRecord(sess[p], "ok")
    /\ sess' = [sess EXCEPT ![p] = Idle]
    /\ UNCHANGED <<nextOrderId, tourVars, candleVars, wsVars, trade_pnls>>

NextConc ==
    \/ \E p \in Procs, u \in Users, od \in ConcOrderCreate,
          oracle \in {Some(x) : x \in ConcPrices} : ConcBegin(p, u, od, oracle)
    \/ \E p \in Procs : ConcExec(p)
    \/ \E p \in Procs : ConcCommit(p)

SpecConc == Init /\ [][NextConc]_vars

(***************************************************************************)
(* Properties of the execution engine                                      *)
(***************************************************************************)
RECURSIVE SumOver(_, _)
SumOver(f(_), sq) == IF sq = << >> THEN 0 ELSE f(Head(sq)) + SumOver(f, Tail(sq))

\* cash moved by one order row of user u: -notional for an EXECUTED BUY,
\* +notional for an EXECUTED SELL, 0 for anything else
CashOf(u, o) ==
    IF o.user_id = u /\ o.status = "EXECUTED"
    THEN (IF o.order_side = "BUY" THEN -1 ELSE 1) * o.executed_price[1] * o.executed_quantity
    ELSE 0
NetCash(u) == LET f(o) == CashOf(u, o) IN SumOver(f, orders)

\* quantity moved by one order row of user u in symbol sym
QtyOf(u, sym, o) ==
    IF o.user_id = u /\ o.symbol = sym /\ o.status = "EXECUTED"
    THEN (IF o.order_side = "BUY" THEN 1 ELSE -1) * o.executed_quantity
    ELSE 0
NetQty(u, sym) == LET f(o) == QtyOf(u, sym, o) IN SumOver(f, orders)

RowsOf(u, sym) ==
    { i \in 1..Len(positions) : positions[i].user_id = u /\ positions[i].symbol = sym }
StoredQty(u, sym) == LET f(r) == IF r.user_id = u /\ r.symbol = sym THEN r.quantity ELSE 0
                     IN  SumOver(f, positions)

\* the last call was a fill that committed
Filled == last.op = "place_order" /\ last.result = "ok" /\ last.od.order_type = "MARKET"
FillSign == IF last.od.order_side = "BUY" THEN 1 ELSE -1
FillQty == last.od.quantity
FillPrice == last.oracle[1]
Old == last.pre_pos[1]
\* ... on an existing position of the opposite / of the same direction
FillOpposes == Filled /\ last.pre_pos # None /\ Sign(Old.quantity) = -FillSign
FillAdds    == Filled /\ last.pre_pos # None /\ Sign(Old.quantity) = FillSign
\* realized P&L the closed part of an opposing fill must book
BookedOnClose ==
    RAdd(Old.realized_pnl,
         RMulI(RSub(R(FillPrice), Old.average_price),
               Min(FillQty, Abs(Old.quantity)) * Old.multiplier * Sign(Old.quantity)))

\* C1: balance conservation -- after any sequence of place_order calls the
\* wallet balance is the starting balance minus the notionals of the user's
\* EXECUTED BUY orders plus the notionals of the user's EXECUTED SELL orders.
C1_BalanceConservation ==
    \A u \in Users : wallets[u] = INITIAL_VIRTUAL_BALANCE + NetCash(u)

C1_Witness ==
    /\ Filled
    /\ \E i, j \in 1..Len(orders) :
         /\ orders[i].status = "EXECUTED" /\ orders[i].order_side = "BUY"
         /\ orders[j].status = "EXECUTED" /\ orders[j].order_side = "SELL"
         /\ orders[i].user_id = orders[j].user_id
         /\ orders[i].executed_price[1] > 0 /\ orders[j].executed_price[1] > 0
         /\ orders[i].executed_price # orders[j].executed_price

\* C2: no negative balance -- every wallet balance is >= 0, and a debit
\* larger than the balance is refused (deduct returns False) and leaves the
\* balance as it was.
DebitAmounts == { p * q : p \in Prices, q \in Quantities }
C2_NoNegativeBalance ==
    \A u \in Users :
       /\ wallets[u] >= 0
       /\ \A amt \in DebitAmounts :
            amt > wallets[u] => deduct(wallets[u], amt) = [balance |-> wallets[u], ok |-> FALSE]

C2_Witness ==
    /\ last.op = "place_order" /\ last.result = "InsufficientBalance"
    /\ last.od.order_side = "BUY"
    /\ calculate_order_value(last.od, last.oracle[1]) > wallets[last.user_id]
    /\ wallets[last.user_id] = last.pre_balance[1]
    /\ wallets[last.user_id] < INITIAL_VIRTUAL_BALANCE

\* C3: no double-spend under concurrency -- interleaved BUY requests of one
\* user never spend the same balance twice: the executed orders never add up
\* to more than the user had, and the balance reflects the debit of every
\* order that reached EXECUTED.
C3_NoDoubleSpend ==
    \A u \in Users :
       /\ INITIAL_VIRTUAL_BALANCE + NetCash(u) >= 0
       /\ wallets[u] = INITIAL_VIRTUAL_BALANCE + NetCash(u)

\* C4: flip correctness -- a fill that opposes the existing position and
\* exceeds it leaves the excess in the opposite direction at the fill price
\* and books the realized P&L of the closed part.
C4_FlipCorrect ==
    (FillOpposes /\ FillQty > Abs(Old.quantity)) =>
       \E i \in RowsOf(last.user_id, last.od.symbol) :
          /\ positions[i].quantity = FillSign * (FillQty - Abs(Old.quantity))
          /\ positions[i].average_price = R(FillPrice)
          /\ positions[i].realized_pnl = BookedOnClose

\* C5: reducing fill -- a fill that opposes the existing position books
\* (price - old_avg) x min(qty, |old_qty|) x multiplier x sign(old_qty) as
\* realized P&L, lowers the absolute quantity by the closed amount and keeps
\* the average price of what remains.
C5_ReducingFill ==
    FillOpposes =>
       /\ \A i \in RowsOf(last.user_id, last.od.symbol) :
             positions[i].realized_pnl = BookedOnClose
       /\ FillQty < Abs(Old.quantity) =>
             \E i \in RowsOf(last.user_id, last.od.symbol) :
                /\ positions[i].quantity = Old.quantity + FillSign * FillQty
                /\ positions[i].average_price = Old.average_price

\* C6: adding fill -- a fill on the side of the existing position
\* accumulates the quantity and sets the average price to the
\* quantity-weighted average of the old position and the fill.
C6_AddingFill ==
    FillAdds =>
       \E i \in RowsOf(last.user_id, last.od.symbol) :
          /\ positions[i].quantity = Old.quantity + FillSign * FillQty
          /\ positions[i].average_price =
                RDivI(RAdd(RMulI(Old.average_price, Abs(Old.quantity)),
                           R(FillQty * FillPrice)),
                      Abs(Old.quantity) + FillQty)

\* C7: closed positions are removed -- no stored position has quantity 0,
\* and a fill that exactly offsets the existing position removes its row.
C7_ClosedRemoved ==
    /\ \A i \in 1..Len(positions) : positions[i].quantity # 0
    /\ (FillOpposes /\ FillQty = Abs(Old.quantity)) =>
          RowsOf(last.user_id, last.od.symbol) = {}

\* C8: concurrent fills on one position are serialized -- there is at most
\* one position row per (user, symbol) and its quantity is what applying
\* the executed fills one after the other gives: the sum of the signed
\* executed quantities.
C8_FillsSerialized ==
    \A u \in Users, sym \in Symbols :
       /\ Cardinality(RowsOf(u, sym)) <= 1
       /\ StoredQty(u, sym) = NetQty(u, sym)

(***************************************************************************)
(* Tournaments: registration, teams, participant statistics and rankings   *)
(***************************************************************************)
MaxTeams == 2

TUsers         == {1, 2}                    \* rows of the users table
TeamIds        == 1..MaxTeams
TradePnls      == {-100, 0, 100}
CustomBalances == {None, Some(0), Some(50000)}
TournamentType == {"SOLO", "TEAM"}
TournamentStatus ==
    {"UPCOMING", "REGISTRATION_OPEN", "ACTIVE", "COMPLETED", "CANCELLED"}

\* what hasattr(TournamentParticipant, k) accepts in the declarative constructor
TournamentParticipantAttrs ==
    {"id", "tournament_id", "user_id", "team_id", "entry_fee_paid",
     "starting_balance", "current_balance", "total_pnl", "total_trades",
     "winning_trades", "losing_trades", "joined_at", "last_trade_at",
     "tournament", "user", "team", "roi", "win_rate", "balance_change"}

JoinKwargs ==
    {"tournament_id", "user_id", "entry_fee_paid", "starting_balance",
     "initial_balance", "current_balance", "total_pnl", "pnl", "rank",
     "is_active"}
AdminAddKwargs ==
    {"tournament_id", "user_id", "entry_fee_paid", "starting_balance",
     "current_balance"}
RegisterTeamKwargs ==
    {"tournament_id", "team_id", "user_id", "entry_fee_paid",
     "starting_balance", "current_balance", "total_pnl"}

ConstructorRaises(kwargs) == ~(kwargs \subseteq TournamentParticipantAttrs)

NewParticipant(user_id, team_id, balance, clock) ==
    [user_id |-> user_id, team_id |-> team_id,
     starting_balance |-> balance, current_balance |-> balance,
     total_pnl |-> 0, total_trades |-> 0,
     winning_trades |-> 0, losing_trades |-> 0, joined_at |-> clock]

NewRanking(user_id, rank, balance) ==
    [user_id |-> user_id, rank |-> rank, total_pnl |-> 0, roi |-> R(0),
     total_trades |-> 0, win_rate |-> R(0), current_balance |-> balance]

roi(p) ==
    IF p.starting_balance = 0 THEN R(0)
    ELSE RNorm(p.total_pnl * 100, p.starting_balance)

win_rate(p) ==
    IF p.total_trades = 0 THEN R(0)
    ELSE RNorm(p.winning_trades * 100, p.total_trades)

\* update_stats counting a trade of P&L zero as a win
update_stats_zero_wins(p, trade_pnl) ==
    [p EXCEPT !.total_trades = @ + 1,
              !.total_pnl = @ + trade_pnl,
              !.current_balance = @ + trade_pnl,
              !.winning_trades = IF trade_pnl >= 0 THEN @ + 1 ELSE @,
              !.losing_trades = IF trade_pnl < 0 THEN @ + 1 ELSE @]

\* update_stats leaving the balance alone
update_stats_keeps_balance(p, trade_pnl) ==
    [p EXCEPT !.total_trades = @ + 1,
              !.total_pnl = @ + trade_pnl,
              !.winning_trades = IF trade_pnl > 0 THEN @ + 1 ELSE @,
              !.losing_trades = IF trade_pnl < 0 THEN @ + 1 ELSE @]

\* TournamentParticipant.update_stats
update_stats(p, trade_pnl) ==
    [p EXCEPT !.total_trades = @ + 1,
              !.total_pnl = @ + trade_pnl,
              !.current_balance = @ + trade_pnl,
              !.winning_trades = IF trade_pnl > 0 THEN @ + 1 ELSE @,
              !.losing_trades = IF trade_pnl < 0 THEN @ + 1 ELSE @]

is_registration_open(t, cp) ==
    /\ t.status = "REGISTRATION_OPEN"
    /\ t.before_deadline
    /\ (IsNone(t.max_participants) \/ cp < t.max_participants[1])

RemoveAt(seq, i) == SubSeq(seq, 1, i - 1) \o SubSeq(seq, i + 1, Len(seq))

ParticipantsOfUser(parts, u) ==
    {i \in DOMAIN parts : parts[i].user_id = Some(u)}
\* the lookup by team_id finding nothing
ParticipantsOfNoTeam(parts, t) == {i \in DOMAIN parts : FALSE}

ParticipantsOfTeam(parts, t) ==
    {i \in DOMAIN parts : parts[i].team_id = Some(t)}
RankingsOfUser(ranks, u) == {k \in DOMAIN ranks : ranks[k].user_id = u}
First(S) == CHOOSE i \in S : \A j \in S : i <= j

\* ORDER BY total_pnl DESC: every ordering the database may return
Orderings(parts) ==
    LET n == Len(parts)
    IN  {o \in [1..n -> 1..n] :
            /\ \A i, j \in 1..n : i # j => o[i] # o[j]
            /\ \A i, j \in 1..n :
                  i < j => parts[o[i]].total_pnl >= parts[o[j]].total_pnl}

\* the enumerate(participants, start=1) loop under one ordering
ApplyOrdering(o, parts, ranks) ==
    [k \in DOMAIN ranks |->
        LET hits == {i \in DOMAIN parts :
                        /\ parts[o[i]].user_id = Some(ranks[k].user_id)
                        /\ k = First(RankingsOfUser(ranks, ranks[k].user_id))}
        IN  IF hits = {} THEN ranks[k]
            ELSE LET i == CHOOSE i \in hits : \A j \in hits : j <= i
                     p == parts[o[i]]
                 IN  [ranks[k] EXCEPT !.rank = i,
                                      !.total_pnl = p.total_pnl,
                                      !.roi = roi(p),
                                      !.total_trades = p.total_trades,
                                      !.win_rate = win_rate(p),
                                      !.current_balance = p.current_balance]]

update_rankings(parts, ranks) ==
    {ApplyOrdering(o, parts, ranks) : o \in Orderings(parts)}

\* the history of a row after one more update_stats call, and without the row
RecordTrade(log, p, trade_pnl) ==
    [k \in DOMAIN log \cup {p.joined_at} |->
        IF k = p.joined_at
        THEN Append(IF k \in DOMAIN log THEN log[k] ELSE << >>, trade_pnl)
        ELSE log[k]]
ForgetRow(log, p) ==
    IF DOMAIN log \ {p.joined_at} = {} THEN << >>
    ELSE [k \in DOMAIN log \ {p.joined_at} |-> log[k]]

\* no trade is reported to the tournament
NoTrade == UNCHANGED <<tradeVars, candleVars, wsVars>>

TradeIdle == UNCHANGED <<tradeVars, candleVars, wsVars, trade_pnls>>

TourInit ==
    /\ participants = << >>
    /\ rankings = << >>
    /\ current_participants = 0
    /\ joinClock = 0
    /\ \E ty \in TournamentType, mp \in {None, Some(2)} :
          tournament = [tournament_type |-> ty, status |-> "REGISTRATION_OPEN",
                        team_size |-> IF ty = "TEAM" THEN Some(2) ELSE None,
                        max_participants |-> mp,
                        starting_balance |-> 100000,
                        before_deadline |-> TRUE]
    /\ teams = << >>
    /\ members = {}

join_tournament(u) ==
    LET result ==
            IF tournament.tournament_type = "TEAM" THEN "TeamTournament"
            ELSE IF ~is_registration_open(tournament, current_participants)
                 THEN "RegistrationClosed"
            ELSE IF ParticipantsOfUser(participants, u) # {}
                 THEN "AlreadyRegistered"
            ELSE IF ConstructorRaises(JoinKwargs) THEN "TypeError"
            ELSE "ok"
    IN  /\ result = "ok" => joinClock < MaxJoins
        /\ IF result = "ok"
             THEN /\ participants' = Append(participants,
                        NewParticipant(Some(u), None,
                                       tournament.starting_balance, joinClock + 1))
                  /\ joinClock' = joinClock + 1
                  /\ current_participants' = current_participants + 1
                  /\ rankings' = Append(rankings,
                        NewRanking(u, current_participants + 1,
                                   tournament.starting_balance))
             ELSE UNCHANGED <<participants, joinClock, current_participants,
                              rankings>>
        /\ last' = [op |-> "join_tournament", user_id |-> u, result |-> result]
        /\ UNCHANGED <<tournament, teams, members>>
        /\ TradeIdle

add_participant_to_tournament(u, starting_balance) ==
    LET existing == ParticipantsOfUser(participants, u)
        balance == IF Truthy(starting_balance) THEN starting_balance[1]
                   ELSE tournament.starting_balance
        added == existing = {} /\ ~ConstructorRaises(AdminAddKwargs)
    IN  /\ added => joinClock < MaxJoins
        /\ IF added
             THEN /\ participants' = Append(participants,
                        NewParticipant(Some(u), None, balance, joinClock + 1))
                  /\ joinClock' = joinClock + 1
                  /\ current_participants' = current_participants + 1
                  /\ rankings' = Append(rankings,
                        NewRanking(u, current_participants + 1, balance))
             ELSE UNCHANGED <<participants, joinClock, current_participants,
                              rankings>>
        /\ last' = [op |-> "add_participant", user_id |-> u, result |-> added]
        /\ UNCHANGED <<tournament, teams, members>>
        /\ TradeIdle

remove_participant_from_tournament(u) ==
    LET found == ParticipantsOfUser(participants, u)
        ranked == RankingsOfUser(rankings, u)
    IN  /\ IF found # {}
             THEN /\ participants' = RemoveAt(participants, First(found))
                  /\ current_participants' =
                        IF current_participants - 1 > 0
                        THEN current_participants - 1 ELSE 0
                  /\ rankings' = IF ranked # {}
                                 THEN RemoveAt(rankings, First(ranked))
                                 ELSE rankings
             ELSE UNCHANGED <<participants, current_participants, rankings>>
        /\ last' = [op |-> "remove_participant", user_id |-> u,
                    result |-> (found # {})]
        /\ trade_pnls' = IF found # {}
                         THEN ForgetRow(trade_pnls, participants[First(found)])
                         ELSE trade_pnls
        /\ UNCHANGED <<joinClock, tournament, teams, members>>
        /\ NoTrade

update_participant_stats(u, trade_pnl) ==
    LET found == ParticipantsOfUser(participants, u)
    IN  /\ found # {} => participants[First(found)].total_trades < MaxTrades
        /\ IF found # {}
             THEN /\ participants' =
                        [participants EXCEPT ![First(found)] = update_stats(@, trade_pnl)]
                  /\ rankings' \in update_rankings(participants', rankings)
             ELSE UNCHANGED <<participants, rankings>>
        /\ last' = [op |-> "update_participant_stats", user_id |-> u,
                    result |-> (found # {}), trade_pnl |-> trade_pnl]
        /\ trade_pnls' = IF found # {}
                         THEN RecordTrade(trade_pnls, participants[First(found)], trade_pnl)
                         ELSE trade_pnls
        /\ UNCHANGED <<current_participants, joinClock, tournament, teams, members>>
        /\ NoTrade

start_tournament ==
    /\ tournament' = [tournament EXCEPT !.status = "ACTIVE"]
    /\ last' = [op |-> "start_tournament", user_id |-> 0, result |-> TRUE]
    /\ UNCHANGED <<participants, rankings, current_participants, joinClock,
                   teams, members>>
    /\ TradeIdle

end_tournament ==
    /\ tournament' = [tournament EXCEPT !.status = "COMPLETED"]
    /\ rankings' \in update_rankings(participants, rankings)
    /\ last' = [op |-> "end_tournament", user_id |-> 0, result |-> TRUE]
    /\ UNCHANGED <<participants, current_participants, joinClock, teams, members>>
    /\ TradeIdle

\* the clock reaches Tournament.registration_deadline
DeadlinePasses ==
    /\ tournament.before_deadline
    /\ tournament' = [tournament EXCEPT !.before_deadline = FALSE]
    /\ last' = [op |-> "clock", user_id |-> 0, result |-> TRUE]
    /\ UNCHANGED <<participants, rankings, current_participants, joinClock,
                   teams, members>>
    /\ TradeIdle

ActiveMembership(u) == {m \in members : m.user_id = u}
TeamRows(t) == {i \in DOMAIN teams : teams[i].id = t}
\* can_add_member letting a full team grow
can_add_member_always(team, max_size) == TRUE

can_add_member(team, max_size) ==
    ~team.is_full /\ team.total_members < max_size

create_team(u) ==
    LET result ==
            IF tournament.tournament_type # "TEAM" THEN "NotTeamTournament"
            ELSE IF tournament.status \notin {"UPCOMING", "REGISTRATION_OPEN"}
                 THEN "Started"
            ELSE IF ActiveMembership(u) # {} THEN "AlreadyInTeam"
            ELSE "ok"
        \* teams.id: an id no existing team has (the row of a deleted team is
        \* gone with everything that referred to it)
        id == First({i \in TeamIds : TeamRows(i) = {}})
    IN  /\ result = "ok" => Len(teams) < MaxTeams
        /\ IF result = "ok"
             THEN /\ teams' = Append(teams, [id |-> id, captain_id |-> u,
                                             total_members |-> 1, is_full |-> FALSE])
                  /\ members' = members \cup
                        {[team_id |-> id, user_id |-> u, role |-> "CAPTAIN"]}
             ELSE UNCHANGED <<teams, members>>
        /\ last' = [op |-> "create_team", user_id |-> u, result |-> result]
        /\ UNCHANGED <<participants, rankings, current_participants, joinClock,
                       tournament>>
        /\ TradeIdle

join_team(t, u) ==
    LET rows == TeamRows(t)
        team == teams[First(rows)]
        result ==
            IF rows = {} THEN "TeamNotFound"
            ELSE IF tournament.status \notin {"UPCOMING", "REGISTRATION_OPEN"}
                 THEN "Started"
            ELSE IF ActiveMembership(u) # {} THEN "AlreadyInTeam"
            ELSE IF ~can_add_member(team, tournament.team_size[1]) THEN "TeamFull"
            ELSE "ok"
    IN  /\ IF result = "ok"
             THEN /\ members' = members \cup
                        {[team_id |-> t, user_id |-> u, role |-> "MEMBER"]}
                  /\ teams' = [teams EXCEPT ![First(rows)] =
                        [@ EXCEPT !.total_members = @ + 1,
                                  !.is_full = IF team.total_members + 1 >=
                                                    tournament.team_size[1]
                                              THEN TRUE ELSE @]]
             ELSE UNCHANGED <<teams, members>>
        /\ last' = [op |-> "join_team", user_id |-> u, team_id |-> t,
                    result |-> result]
        /\ UNCHANGED <<participants, rankings, current_participants, joinClock,
                       tournament>>
        /\ TradeIdle

\* the gate comparing with a team of one
TeamNotFullOfOne(team, team_size) == team.total_members < 1

\* register_team_for_tournament line 228
TeamNotFull(team, team_size) == team.total_members < team_size

\* TeamService.leave_team.  Deleting the last member deletes the team, and
\* with it (ON DELETE CASCADE on team_id) its members and participant rows.
leave_team(t, u) ==
    LET rows == TeamRows(t)
        team == teams[First(rows)]
        mine == {m \in members : m.team_id = t /\ m.user_id = u}
        member == CHOOSE m \in mine : TRUE
        result ==
            IF rows = {} THEN "TeamNotFound"
            ELSE IF tournament.status \notin {"UPCOMING", "REGISTRATION_OPEN"}
                 THEN "Started"
            ELSE IF mine = {} THEN "NotMember"
            ELSE IF member.role = "CAPTAIN" /\ team.total_members > 1
                 THEN "CaptainCannotLeave"
            ELSE "ok"
    IN  /\ IF result = "ok"
             THEN IF team.total_members - 1 = 0
                  THEN /\ teams' = RemoveAt(teams, First(rows))
                       /\ members' = {m \in members : m.team_id # t}
                       /\ participants' =
                             SelectSeq(participants, LAMBDA p : p.team_id # Some(t))
                  ELSE /\ teams' = [teams EXCEPT ![First(rows)] =
                             [@ EXCEPT !.total_members = @ - 1, !.is_full = FALSE]]
                       /\ members' = members \ {member}
                       /\ UNCHANGED participants
             ELSE UNCHANGED <<teams, members, participants>>
        /\ last' = [op |-> "leave_team", user_id |-> u, team_id |-> t,
                    result |-> result]
        /\ UNCHANGED <<rankings, current_participants, joinClock, tournament>>
        /\ TradeIdle

\* TeamService.transfer_captaincy
transfer_captaincy(t, current_captain_id, new_captain_id) ==
    LET rows == TeamRows(t)
        team == teams[First(rows)]
        current_member == {m \in members : m.team_id = t /\ m.user_id = current_captain_id}
        new_member == {m \in members : m.team_id = t /\ m.user_id = new_captain_id}
        result ==
            IF rows = {} THEN "TeamNotFound"
            ELSE IF team.captain_id # current_captain_id THEN "NotCaptain"
            ELSE IF new_member = {} THEN "NotMember"
            ELSE IF current_member = {} THEN "AttributeError"
            ELSE "ok"
    IN  /\ IF result = "ok"
             THEN /\ members' =
                        {IF m \in new_member THEN [m EXCEPT !.role = "CAPTAIN"]
                         ELSE IF m \in current_member THEN [m EXCEPT !.role = "MEMBER"]
                         ELSE m : m \in members}
                  /\ teams' = [teams EXCEPT ![First(rows)] =
                        [@ EXCEPT !.captain_id = new_captain_id]]
             ELSE UNCHANGED <<teams, members>>
        /\ last' = [op |-> "transfer_captaincy", user_id |-> current_captain_id,
                    team_id |-> t, result |-> result]
        /\ UNCHANGED <<participants, rankings, current_participants, joinClock,
                       tournament>>
        /\ TradeIdle

register_team_for_tournament(t) ==
    LET rows == TeamRows(t)
        team == teams[First(rows)]
        result ==
            IF rows = {} THEN "TeamNotFound"
            ELSE IF TeamNotFull(team, tournament.team_size[1])
                 THEN "TeamNotFull"
            ELSE IF ParticipantsOfTeam(participants, t) # {}
                 THEN "AlreadyRegistered"
            ELSE IF ConstructorRaises(RegisterTeamKwargs) THEN "TypeError"
            ELSE "ok"
    IN  /\ result = "ok" => joinClock < MaxJoins
        /\ IF result = "ok"
             THEN /\ participants' = Append(participants,
                        NewParticipant(None, Some(t),
                                       tournament.starting_balance, joinClock + 1))
                  /\ joinClock' = joinClock + 1
                  /\ current_participants' = current_participants + 1
             ELSE UNCHANGED <<participants, joinClock, current_participants>>
        /\ last' = [op |-> "register_team", user_id |-> 0, team_id |-> t,
                    result |-> result]
        /\ UNCHANGED <<rankings, tournament, teams, members>>
        /\ TradeIdle

InitTour == TradeInit /\ TourInit /\ CandleInit /\ WsInit /\ trade_pnls = << >>

NextTour ==
    \/ \E u \in TUsers : join_tournament(u)
    \/ \E u \in TUsers, sb \in CustomBalances : add_participant_to_tournament(u, sb)
    \/ \E u \in TUsers : remove_participant_from_tournament(u)
    \/ \E u \in TUsers, pnl \in TradePnls : update_participant_stats(u, pnl)
    \/ start_tournament
    \/ end_tournament
    \/ DeadlinePasses
    \/ \E u \in TUsers : create_team(u)
    \/ \E t \in TeamIds, u \in TUsers : join_team(t, u)
    \/ \E t \in TeamIds, u \in TUsers : leave_team(t, u)
    \/ \E t \in TeamIds : register_team_for_tournament(t)

SpecTour == InitTour /\ [][NextTour]_vars

\* registration only: every call that creates or removes participants,
\* teams and members, and the status changes
NextReg ==
    \/ \E u \in TUsers : join_tournament(u)
    \/ \E u \in TUsers, sb \in CustomBalances : add_participant_to_tournament(u, sb)
    \/ \E u \in TUsers : remove_participant_from_tournament(u)
    \/ start_tournament
    \/ end_tournament
    \/ DeadlinePasses
    \/ \E u \in TUsers : create_team(u)
    \/ \E t \in TeamIds, u \in TUsers : join_team(t, u)
    \/ \E t \in TeamIds, u \in TUsers : leave_team(t, u)
    \/ \E t \in TeamIds : register_team_for_tournament(t)

SpecReg == InitTour /\ [][NextReg]_vars

\* one solo tournament: registration, the administrator's additions and
\* removals, trades reported to the tournament, start and end
NextSolo ==
    \/ \E u \in TUsers : join_tournament(u)
    \/ \E u \in TUsers, sb \in CustomBalances : add_participant_to_tournament(u, sb)
    \/ \E u \in TUsers : remove_participant_from_tournament(u)
    \/ \E u \in TUsers, pnl \in TradePnls : update_participant_stats(u, pnl)
    \/ start_tournament
    \/ end_tournament

SpecSolo == Init /\ [][NextSolo]_vars

(***************************************************************************)
(* Ranking properties                                                      *)
(***************************************************************************)
RankingsJustUpdated ==
    \/ last.op = "end_tournament"
    \/ last.op = "update_participant_stats" /\ last.result

RankOf(p) ==
    {rankings[k].rank : k \in {k \in DOMAIN rankings :
                                  p.user_id = Some(rankings[k].user_id)}}

\* C9: immediately after update_rankings completes, the ranks of the
\* tournament's participants are exactly 1..N (N the number of participants):
\* every participant is ranked, no rank is skipped or repeated, and a
\* participant with a better rank has at least the P&L of one with a worse rank.
C9_RankTotality ==
    RankingsJustUpdated =>
        LET N == Len(participants)
        IN  /\ \A i \in 1..N : Cardinality(RankOf(participants[i])) = 1
            /\ UNION {RankOf(participants[i]) : i \in 1..N} = 1..N
            /\ \A i, j \in 1..N :
                  \A a \in RankOf(participants[i]), b \in RankOf(participants[j]) :
                     /\ i # j => a # b
                     /\ a < b => participants[i].total_pnl >= participants[j].total_pnl

\* C10: in a solo tournament, in every state reachable through join_tournament,
\* update_participant_stats, update_rankings, admin add and admin remove, the
\* ranks stored in TournamentRanking are a dense permutation of 1..N, N being
\* the number of ranking rows: no duplicates and no gaps.
C10_DenseRanks ==
    tournament.tournament_type = "SOLO" =>
        /\ {rankings[k].rank : k \in DOMAIN rankings} = 1..Len(rankings)
        /\ \A k, m \in DOMAIN rankings :
              k # m => rankings[k].rank # rankings[m].rank

\* C11: deterministic tie-break -- immediately after update_rankings, of two
\* participants with equal total P&L the one that joined earlier has the
\* smaller (better) rank.
C11_TieBreak ==
    RankingsJustUpdated =>
        \A i, j \in DOMAIN participants :
           (/\ participants[i].total_pnl = participants[j].total_pnl
            /\ participants[i].joined_at < participants[j].joined_at) =>
              \A a \in RankOf(participants[i]), b \in RankOf(participants[j]) : a < b

(***************************************************************************)
(* Order life cycle and place_order contracts                              *)
(***************************************************************************)
OrdersOf(order_id, u) ==
    { i \in DOMAIN orders : orders[i].id = order_id /\ orders[i].user_id = u }

\* C12: terminal order states are absorbing -- an order whose status is
\* EXECUTED, CANCELLED or REJECTED is never changed by a later call: its
\* status and its execution fields stay as they are.
C12_TerminalAbsorbing ==
    [][\A i \in DOMAIN orders :
          orders[i].status \in TerminalStatuses =>
             i \in DOMAIN orders' /\ orders'[i] = orders[i]]_vars

C12_Witness ==
    /\ last.op = "cancel_order" /\ ~last.result
    /\ last.pre_status = Some("EXECUTED")
    /\ \E i \in OrdersOf(last.order_id, last.user_id) :
          orders[i].status = "EXECUTED" /\ orders[i].executed_quantity > 0

\* C13: cancel_order returns true, and sets the status to CANCELLED, exactly
\* when the order exists, belongs to the caller and is PENDING or OPEN; in
\* every other case it returns false and leaves the orders, the wallets and
\* the positions unchanged.
C13_CancelContract ==
    [][last'.op = "cancel_order" =>
         LET m == OrdersOf(last'.order_id, last'.user_id)
             ok == m # {} /\ \A i \in m : orders[i].status \in {"PENDING", "OPEN"}
         IN  /\ last'.result = ok
             /\ ok => /\ Len(orders') = Len(orders)
                      /\ \A i \in DOMAIN orders :
                            orders'[i] = IF i \in m
                                         THEN [orders[i] EXCEPT !.status = "CANCELLED"]
                                         ELSE orders[i]
             /\ ~ok => orders' = orders
             /\ wallets' = wallets /\ positions' = positions]_vars

C13_Witness ==
    /\ last.op = "cancel_order" /\ ~last.result
    /\ last.user_id \in Strangers
    /\ \E i \in DOMAIN orders :
          orders[i].id = last.order_id /\ orders[i].status = "OPEN"

\* C14: idempotent cancel -- a second cancel_order of the same order by its
\* owner, right after one that returned true, returns false and leaves the
\* order CANCELLED.
C14_IdempotentCancel ==
    [][(/\ last.op = "cancel_order" /\ last.result
        /\ last'.op = "cancel_order"
        /\ last'.order_id = last.order_id /\ last'.user_id = last.user_id) =>
          /\ ~last'.result
          /\ orders' = orders
          /\ \A i \in OrdersOf(last.order_id, last.user_id) :
                orders'[i].status = "CANCELLED"]_vars

C14_Witness ==
    /\ last.op = "cancel_order" /\ ~last.result
    /\ last.pre_status = Some("CANCELLED")
    /\ \E i \in OrdersOf(last.order_id, last.user_id) : orders[i].status = "CANCELLED"

PlaceFailed == last.op = "place_order" /\ last.result # "ok"

\* C15: place_order is all-or-nothing -- a call that fails (no wallet, no
\* price, insufficient funds, position limit, or an error during execution)
\* persists no order and leaves every wallet and every position as before.
C15_AllOrNothing ==
    [][(last'.op = "place_order" /\ last'.result # "ok") =>
          /\ orders' = orders
          /\ wallets' = wallets
          /\ positions' = positions]_vars

C15_Witness ==
    /\ PlaceFailed /\ last.result = "AttributeError"
    /\ last.od.order_side = "BUY"
    /\ last.pre_pos # None
    /\ wallets[last.user_id] = last.pre_balance[1]
    /\ \A i \in DOMAIN orders : orders[i].status = "EXECUTED"

\* the last place_order call found a wallet and got a price
Priced == last.op = "place_order" /\ last.pre_balance # None /\ last.oracle # None
\* notional of the request: limit price x quantity for a LIMIT order that
\* carries a price, oracle price x quantity otherwise
Notional ==
    IF last.od.order_type = "LIMIT" /\ last.od.price # None
    THEN last.od.price[1] * last.od.quantity
    ELSE last.oracle[1] * last.od.quantity

\* C16: BUY affordability -- a BUY whose notional exceeds the wallet balance
\* is rejected with the insufficient-funds error and creates no order; a SELL
\* is never rejected for insufficient funds.
C16_BuyAffordability ==
    Priced =>
       /\ (last.od.order_side = "BUY" /\ last.pre_balance[1] < Notional) =>
             /\ last.result = "InsufficientBalance"
             /\ last.order = None
       /\ last.od.order_side = "SELL" => last.result # "InsufficientBalance"

C16_Witness ==
    /\ Priced /\ last.result = "InsufficientBalance"
    /\ last.od.order_type = "LIMIT"
    /\ last.oracle[1] * last.od.quantity <= last.pre_balance[1]
    /\ last.pre_balance[1] < Notional

\* C17: position limit -- an order, BUY or SELL, whose notional exceeds
\* MAX_POSITION_SIZE is rejected and creates no order, and no EXECUTED order
\* has executed_price x executed_quantity above that maximum.
C17_PositionLimit ==
    /\ (Priced /\ Notional > MAX_POSITION_SIZE) =>
          last.result \in {"PositionLimitExceeded", "InsufficientBalance"}
          /\ last.order = None
    /\ \A i \in DOMAIN orders :
          orders[i].status = "EXECUTED" =>
             orders[i].executed_price[1] * orders[i].executed_quantity
                <= MAX_POSITION_SIZE

C17_Witness ==
    /\ Priced /\ last.result = "PositionLimitExceeded"
    /\ last.od.order_side = "SELL" /\ last.od.order_type = "MARKET"
    /\ Notional > MAX_POSITION_SIZE

\* C18: a MARKET order that passes validation is executed within the same
\* place_order call: the call returns the order EXECUTED with executed_quantity
\* = quantity and executed_price = the oracle price of the call, the fill is
\* applied to the position and the wallet is debited (BUY) or credited (SELL)
\* by executed_price x quantity.
C18_MarketExecuted ==
    (/\ last.op = "place_order" /\ last.od.order_type = "MARKET"
     /\ ValidateOrder(last.pre_balance, last.od, last.oracle) = "ok") =>
        /\ last.result = "ok"
        /\ last.order # None
        /\ last.order[1].status = "EXECUTED"
        /\ last.order[1].executed_quantity = last.od.quantity
        /\ last.order[1].executed_price = last.oracle
        /\ last.posop \in {"insert", "update", "delete"}
        /\ wallets[last.user_id] =
              last.pre_balance[1] - FillSign * last.oracle[1] * last.od.quantity

\* C19: a LIMIT or STOP order that passes validation is left OPEN with
\* executed_quantity 0 and no executed_price, and placing it changes no
\* wallet balance and no position.
C19_LimitStaysOpen ==
    [][(/\ last'.op = "place_order" /\ last'.od.order_type # "MARKET"
        /\ ValidateOrder(WalletOf(wallets, last'.user_id), last'.od, last'.oracle) = "ok") =>
          /\ last'.result = "ok"
          /\ Len(orders') = Len(orders) + 1
          /\ SubSeq(orders', 1, Len(orders)) = orders
          /\ LET o == orders'[Len(orders')]
             IN  /\ o.status = "OPEN"
                 /\ o.executed_quantity = 0
                 /\ o.executed_price = None
                 /\ o.user_id = last'.user_id
                 /\ o.order_type = last'.od.order_type
                 /\ o.quantity = last'.od.quantity
          /\ wallets' = wallets
          /\ positions' = positions]_vars

C19_Witness ==
    /\ last.op = "place_order" /\ last.result = "ok"
    /\ last.od.order_type \in {"LIMIT", "STOP_LOSS"}
    /\ last.order[1].status = "OPEN"
    /\ positions # << >>
    /\ wallets[last.user_id] < INITIAL_VIRTUAL_BALANCE

\* the order table holds exactly an executed MARKET BUY followed by an
\* executed MARKET SELL of the same user, symbol and quantity
RoundTrip ==
    /\ Len(orders) = 2
    /\ \A i \in 1..2 : orders[i].status = "EXECUTED" /\ orders[i].order_type = "MARKET"
    /\ orders[1].order_side = "BUY" /\ orders[2].order_side = "SELL"
    /\ orders[1].user_id = orders[2].user_id
    /\ orders[1].symbol = orders[2].symbol
    /\ orders[1].executed_quantity = orders[2].executed_quantity
RoundTripPnl ==
    (orders[2].executed_price[1] - orders[1].executed_price[1])
       * orders[1].executed_quantity

C21_UpdateStats ==
    [][(last'.op = "update_participant_stats" /\ last'.result) =>
          LET i == First(ParticipantsOfUser(participants, last'.user_id))
              p == participants[i]
              q == participants'[i]
              pnl == last'.trade_pnl
          IN  /\ Len(participants') = Len(participants)
              /\ q.total_trades = p.total_trades + 1
              /\ q.winning_trades = p.winning_trades + (IF pnl > 0 THEN 1 ELSE 0)
              /\ q.losing_trades = p.losing_trades + (IF pnl < 0 THEN 1 ELSE 0)
              /\ q.total_pnl = p.total_pnl + pnl
              /\ q.current_balance = p.current_balance + pnl
              /\ q.starting_balance = p.starting_balance
              /\ \A j \in DOMAIN participants :
                    j # i => participants'[j] = participants[j]]_vars

C21_Witness ==
    /\ last.op = "update_participant_stats" /\ last.result
    /\ last.trade_pnl = 0
    /\ \E i \in ParticipantsOfUser(participants, last.user_id) :
          /\ participants[i].total_trades = 1
          /\ participants[i].winning_trades = 0
          /\ participants[i].losing_trades = 0
          /\ participants[i].current_balance = participants[i].starting_balance
    /\ Len(participants) = 2

(***************************************************************************)
(* Candles (services/candle_builder.py).  A timestamp is the integer number *)
(* of seconds int(tick_timestamp.timestamp()); a dict is a function whose   *)
(* domain is the set of its keys.                                           *)
(***************************************************************************)
MaxTicks == 4

timeframe_seconds == 60          \* get_candle_builder(timeframe_seconds=60)
TickSymbols == {"NIFTY"}
TickPrices  == {90, 100, 110}
TickVolumes == {0, 10}           \* cumulative volume reported by the feed
TickTimes   == {30, 60, 125}     \* seconds since the epoch

Max(a, b) == IF a >= b THEN a ELSE b

\* d[k] = v on a dict
DictPut(d, k, v) == [x \in DOMAIN d \cup {k} |-> IF x = k THEN v ELSE d[x]]

\* CandleBuilder._get_candle_timestamp, in milliseconds
get_candle_timestamp(ts) ==
    ((ts \div timeframe_seconds) * timeframe_seconds) * 1000

\* CandleData(timestamp, open, high, low, close, volume)
CandleData(ts, price, volume) ==
    [timestamp |-> ts, open |-> price, high |-> price, low |-> price,
     close |-> price, volume |-> volume]

\* the update branch without the close
FoldTickKeepsClose(current, price, volume_delta) ==
    [current EXCEPT !.high = Max(@, price),
                    !.low = Min(@, price),
                    !.volume = @ + volume_delta]

\* lines 137-140: fold a tick into the in-progress candle
FoldTick(current, price, volume_delta) ==
    [current EXCEPT !.high = Max(@, price),
                    !.low = Min(@, price),
                    !.close = price,
                    !.volume = @ + volume_delta]

\* the difference of the cumulative volumes without the floor at 0
VolumeDeltaUnfloored(lt, symbol, volume) ==
    IF symbol \in DOMAIN lt THEN volume - lt[symbol][2] ELSE 0

\* lines 93-96: the volume this tick adds
VolumeDelta(lt, symbol, volume) ==
    IF symbol \in DOMAIN lt THEN Max(0, volume - lt[symbol][2]) ELSE 0

\* process_tick starting a new candle on every tick of an interval not earlier
\* than the in-progress one
ProcessTickRollsOnEqual(cc, lt, symbol, price, volume, timestamp) ==
    LET candle_ts == get_candle_timestamp(timestamp)
        volume_delta == VolumeDelta(lt, symbol, volume)
        lt1 == DictPut(lt, symbol, <<price, volume>>)
        fresh == CandleData(candle_ts, price, volume_delta)
    IN  IF symbol \notin DOMAIN cc
        THEN [current_candles |-> DictPut(cc, symbol, fresh), last_tick |-> lt1,
              completed_candle |-> None]
        ELSE IF candle_ts >= cc[symbol].timestamp
             THEN [current_candles |-> DictPut(cc, symbol, fresh), last_tick |-> lt1,
                   completed_candle |-> Some(cc[symbol])]
             ELSE [current_candles |->
                       DictPut(cc, symbol, FoldTick(cc[symbol], price, volume_delta)),
                   last_tick |-> lt1, completed_candle |-> None]

\* process_tick starting a new candle whenever the tick's interval differs
\* from the in-progress one
ProcessTickRollsOnChange(cc, lt, symbol, price, volume, timestamp) ==
    LET candle_ts == get_candle_timestamp(timestamp)
        volume_delta == VolumeDelta(lt, symbol, volume)
        lt1 == DictPut(lt, symbol, <<price, volume>>)
        fresh == CandleData(candle_ts, price, volume_delta)
    IN  IF symbol \notin DOMAIN cc
        THEN [current_candles |-> DictPut(cc, symbol, fresh), last_tick |-> lt1,
              completed_candle |-> None]
        ELSE IF candle_ts # cc[symbol].timestamp
             THEN [current_candles |-> DictPut(cc, symbol, fresh), last_tick |-> lt1,
                   completed_candle |-> Some(cc[symbol])]
             ELSE [current_candles |->
                       DictPut(cc, symbol, FoldTick(cc[symbol], price, volume_delta)),
                   last_tick |-> lt1, completed_candle |-> None]

\* CandleBuilder.process_tick on the builder's two dicts: the dicts it leaves
\* and the completed candle it returns (None when there is none)
ProcessTick(cc, lt, symbol, price, volume, timestamp) ==
    LET candle_ts == get_candle_timestamp(timestamp)
        volume_delta == VolumeDelta(lt, symbol, volume)
        lt1 == DictPut(lt, symbol, <<price, volume>>)
        fresh == CandleData(candle_ts, price, volume_delta)
    IN  IF symbol \notin DOMAIN cc
        THEN [current_candles |-> DictPut(cc, symbol, fresh), last_tick |-> lt1,
              completed_candle |-> None]
        ELSE IF candle_ts > cc[symbol].timestamp
             THEN [current_candles |-> DictPut(cc, symbol, fresh), last_tick |-> lt1,
                   completed_candle |-> Some(cc[symbol])]
             ELSE [current_candles |->
                       DictPut(cc, symbol, FoldTick(cc[symbol], price, volume_delta)),
                   last_tick |-> lt1, completed_candle |-> None]

process_tick(symbol, price, volume, timestamp) ==
    /\ Len(ticks) < MaxTicks
    /\ LET r == ProcessTick(current_candles, last_tick, symbol, price, volume, timestamp)
       IN  /\ current_candles' = r.current_candles
           /\ last_tick' = r.last_tick
           /\ ticks' = Append(ticks, [symbol |-> symbol, price |-> price,
                                      volume |-> volume, timestamp |-> timestamp,
                                      completed_candle |-> r.completed_candle])
           /\ last' = [op |-> "process_tick", symbol |-> symbol,
                       result |-> r.completed_candle]
    /\ UNCHANGED <<tradeVars, tourVars, wsVars, trade_pnls>>

NextCandle ==
    \E symbol \in TickSymbols, price \in TickPrices, volume \in TickVolumes,
       timestamp \in TickTimes : process_tick(symbol, price, volume, timestamp)

SpecCandle == Init /\ [][NextCandle]_vars

\* a feed of two symbols whose ticks interleave
FeedSymbols == {"NIFTY", "BANKNIFTY"}
FeedPrices  == {90, 110}
FeedTimes   == {30, 125}

NextFeed ==
    \E symbol \in FeedSymbols, price \in FeedPrices, volume \in TickVolumes,
       timestamp \in FeedTimes : process_tick(symbol, price, volume, timestamp)

SpecFeed == Init /\ [][NextFeed]_vars

(***************************************************************************)
(* Candle properties                                                       *)
(***************************************************************************)
\* the ticks of a symbol, by position in the feed
TicksOf(symbol) == {i \in DOMAIN ticks : ticks[i].symbol = symbol}
IntervalOf(i) == get_candle_timestamp(ticks[i].timestamp)
IntervalsOf(symbol) == {IntervalOf(i) : i \in TicksOf(symbol)}
InOrder(symbol) ==
    \A i, j \in TicksOf(symbol) : i < j => ticks[i].timestamp <= ticks[j].timestamp
\* the intervals hit are consecutive multiples of the timeframe
Consecutive(symbol) ==
    \A a, b \in IntervalsOf(symbol) :
       a < b => \A c \in {a + n * timeframe_seconds * 1000 : n \in 0..MaxTicks} :
                   c < b => c \in IntervalsOf(symbol)
\* the ticks of the symbol before position i that fall in interval iv
TicksIn(symbol, iv, i) ==
    {j \in TicksOf(symbol) : j < i /\ IntervalOf(j) = iv}
Earliest(S) == CHOOSE i \in S : \A j \in S : i <= j
Latest(S) == CHOOSE i \in S : \A j \in S : j <= i
Completed(symbol) == {i \in TicksOf(symbol) : ticks[i].completed_candle # None}

\* C22: candle interval completeness -- in-order ticks of one symbol that
\* fall in k consecutive intervals make process_tick return exactly k-1
\* completed candles (the last interval stays in progress), one per interval,
\* and each completed candle's open, high, low and close are the first,
\* maximum, minimum and last tick price of its interval.
C22_IntervalCompleteness ==
    \A symbol \in TickSymbols :
       (TicksOf(symbol) # {} /\ InOrder(symbol) /\ Consecutive(symbol)) =>
          /\ Cardinality(Completed(symbol)) = Cardinality(IntervalsOf(symbol)) - 1
          /\ \A i \in Completed(symbol) :
                LET c == ticks[i].completed_candle[1]
                    S == TicksIn(symbol, c.timestamp, i)
                IN  /\ S # {}
                    /\ c.timestamp < IntervalOf(i)
                    /\ c.open = ticks[Earliest(S)].price
                    /\ c.close = ticks[Latest(S)].price
                    /\ \A j \in S : c.low <= ticks[j].price /\ ticks[j].price <= c.high
                    /\ \E j \in S : c.high = ticks[j].price
                    /\ \E j \in S : c.low = ticks[j].price
          /\ \A i, j \in Completed(symbol) :
                i # j => ticks[i].completed_candle[1].timestamp
                           # ticks[j].completed_candle[1].timestamp

C22_Witness ==
    /\ Len(ticks) = 4
    /\ InOrder("NIFTY") /\ Consecutive("NIFTY")
    /\ Cardinality(IntervalsOf("NIFTY")) = 3
    /\ Cardinality(Completed("NIFTY")) = 2
    /\ \E i \in Completed("NIFTY") :
          LET c == ticks[i].completed_candle[1]
          IN  c.open = 100 /\ c.high = 100 /\ c.low = 90 /\ c.close = 90

(***************************************************************************)
(* Unrealized P&L                                                          *)
(***************************************************************************)
\* what the claim prescribes for a row whose mark price is set
PrescribedUnrealized(p) ==
    LET diff == RSub(R(MarkPrice(p)[1]), p.average_price)
    IN  IF p.instrument_type \in {"OPTION_CE", "OPTION_PE"}
        THEN RMulI(RMulI(diff, p.multiplier), Sign(p.quantity))
        ELSE RMulI(diff, p.quantity)

\* C23: instrument-specific unrealized P&L -- for an option (CE/PE) position
\* the unrealized P&L is (mark - avg) x multiplier x sign(qty), for an
\* index/equity-like position it is (mark - avg) x qty, and an order fill on
\* an existing position stores the value of this formula.
C23_UnrealizedFormula ==
    /\ \A i \in DOMAIN positions, it \in InstrumentType :
          LET p == [positions[i] EXCEPT !.instrument_type = it]
              u == calculate_unrealized_pnl(p)
          IN  Truthy(MarkPrice(p)) =>
                 ~u.raised /\ u.value = PrescribedUnrealized(p)
    /\ (/\ last.op = "place_order" /\ last.od.order_type = "MARKET"
        /\ ValidateOrder(last.pre_balance, last.od, last.oracle) = "ok"
        /\ last.pre_pos # None /\ last.posop = "update"
        /\ Truthy(last.oracle)) =>
          /\ last.result = "ok"
          /\ last.session_pos[1].unrealized_pnl =
                PrescribedUnrealized(last.session_pos[1])

(***************************************************************************)
(* Team registration properties                                            *)
(***************************************************************************)
MembersOf(mem, t) == {m \in mem : m.team_id = t}
TeamParticipants(parts, t) == {i \in DOMAIN parts : parts[i].team_id = Some(t)}
UserParticipants(parts, u) == {i \in DOMAIN parts : parts[i].user_id = Some(u)}

\* C24: team registration gate -- register_team_for_tournament succeeds only
\* when the team's total_members equals the tournament's team_size exactly;
\* with any other member count it is rejected and creates no participant row.
C24_RegistrationGate ==
    [][last'.op = "register_team" =>
         LET rows == TeamRows(last'.team_id)
             full == /\ rows # {}
                     /\ teams[First(rows)].total_members = tournament.team_size[1]
         IN  /\ last'.result = "ok" => full
             /\ ~full => /\ last'.result # "ok"
                         /\ participants' = participants
                         /\ current_participants' = current_participants]_vars

C24_Witness ==
    /\ last.op = "register_team" /\ last.result = "TeamNotFull"
    /\ \E i \in TeamRows(last.team_id) : teams[i].total_members = 1
    /\ TeamParticipants(participants, last.team_id) = {}
    /\ tournament.team_size = Some(2)

\* C25: team lock-in -- once a team has a TournamentParticipant row, no
\* join_team or leave_team call changes that team's membership.
C25_TeamLockIn ==
    [][\A t \in TeamIds :
          (/\ TeamParticipants(participants, t) # {}
           /\ last'.op \in {"join_team", "leave_team"}) =>
             MembersOf(members', t) = MembersOf(members, t)]_vars

\* C26: no duplicate participation -- there is at most one participant row
\* per user and per team of the tournament, and a join_tournament by a user
\* or a register_team_for_tournament by a team that already has a row is
\* rejected and changes neither the participant rows nor current_participants.
C26_NoDuplicates ==
    /\ [](/\ \A u \in TUsers : Cardinality(UserParticipants(participants, u)) <= 1
          /\ \A t \in TeamIds : Cardinality(TeamParticipants(participants, t)) <= 1)
    /\ [][(\/ /\ last'.op = "join_tournament"
              /\ UserParticipants(participants, last'.user_id) # {}
           \/ /\ last'.op = "register_team"
              /\ TeamParticipants(participants, last'.team_id) # {}) =>
             /\ last'.result # "ok"
             /\ participants' = participants
             /\ current_participants' = current_participants]_vars

C26_Witness ==
    /\ last.op = "register_team" /\ last.result = "AlreadyRegistered"
    /\ Cardinality(TeamParticipants(participants, last.team_id)) = 1
    /\ current_participants = 1

(***************************************************************************)
(* _execute_order called on its own: the order has been created and        *)
(* flushed by a caller that did not validate it against the balance the    *)
(* wallet query of line 125 returns, and the caller commits afterwards.    *)
(* place_order never does this: it validates the balance of the wallet     *)
(* object that line 125 finds again in the same session.                   *)
(***************************************************************************)
ExecOrders == { od \in ValidOrderCreate : od.order_type = "MARKET" }
ExecPrices == {0, 100, 250}

execute_order_call(u, od, execution_price) ==
    /\ nextOrderId <= MaxOrders
    /\ \E found \in FirstPosition(positions, u, od.symbol) :
         LET ex == execute_order(NewOrder(nextOrderId, u, od), execution_price,
                                 wallets[u], found)
             s  == [user_id |-> u, od |-> od, oracle |-> Some(execution_price),
                    loaded |-> Some(wallets[u]), balance |-> Some(ex.balance),
                    order |-> Some(ex.order), found |-> found,
                    posop |-> ex.posop, row |-> Some(ex.row)]
         IN  /\ nextOrderId' = nextOrderId + 1
             /\ IF ex.raised
                THEN /\ last' = [CallRecord(s, "AttributeError") EXCEPT
                                    !.op = "execute_order"]
                     /\ UNCHANGED <<wallets, orders, positions>>
                ELSE /\ wallets' = CommitWallets(s, wallets)
                     /\ orders' = Append(orders, ex.order)
                     /\ positions' = CommitPositions(s, positions)
                     /\ last' = [CallRecord(s, "ok") EXCEPT !.op = "execute_order"]
    /\ UNCHANGED <<sess, tourVars, candleVars, wsVars, trade_pnls>>

NextExec ==
    \E u \in Users, od \in ExecOrders, px \in ExecPrices : execute_order_call(u, od, px)

SpecExec == Init /\ [][NextExec]_vars

PaperOrderAttrs ==
    {"id", "user_id", "symbol", "instrument_type", "instrument_token",
     "order_type", "order_side", "quantity", "price", "trigger_price",
     "stop_loss", "take_profit", "status", "executed_price",
     "executed_quantity", "executed_at", "created_at", "updated_at", "user"}
TournamentOrderKwargs ==
    {"user_id", "tournament_id", "symbol", "instrument_type", "order_type",
     "order_side", "quantity", "price", "stop_loss", "take_profit", "status",
     "created_at"}

\* api/tournaments.py place_tournament_order; in_window says whether now lies
\* between the tournament's start_date and end_date
place_tournament_order(u, in_window) ==
    LET result ==
            IF ParticipantsOfUser(participants, u) = {} THEN "NotParticipant"
            ELSE IF ~in_window THEN "NotActive"
            ELSE IF ~(TournamentOrderKwargs \subseteq PaperOrderAttrs) THEN "TypeError"
            ELSE "ok"
    IN  /\ result # "ok"
        /\ last' = [op |-> "place_tournament_order", user_id |-> u, result |-> result]
        /\ UNCHANGED <<tradeVars, tourVars, candleVars, wsVars, trade_pnls>>

PlayOrders == { od \in UserOrders : od.order_type \in {"MARKET", "LIMIT"} }

NextPlay ==
    \/ \E u \in Users : add_participant_to_tournament(u, None)
    \/ start_tournament
    \/ \E u \in Users, od \in PlayOrders, oracle \in OracleAnswers :
          place_order(u, od, oracle)
    \/ \E u \in Users, w \in BOOLEAN : place_tournament_order(u, w)
    \/ end_tournament

SpecPlay == Init /\ [][NextPlay]_vars

\* C28: ranking recompute triggers -- every executed trade of a participant
\* of the running tournament comes with an update of the participant's
\* statistics and a recompute of the tournament's ranking, and end_tournament
\* recomputes the ranking when it sets the tournament COMPLETED.
C28_RecomputeTriggers ==
    [][/\ (/\ last'.op \in {"place_order", "place_tournament_order"}
           /\ last'.result = "ok"
           /\ Len(orders') > Len(orders)
           /\ orders'[Len(orders')].status = "EXECUTED"
           /\ tournament.status = "ACTIVE"
           /\ ParticipantsOfUser(participants, last'.user_id) # {}) =>
             LET i == First(ParticipantsOfUser(participants, last'.user_id))
             IN  /\ participants'[i].total_trades = participants[i].total_trades + 1
                 /\ rankings' \in update_rankings(participants', rankings)
       /\ last'.op = "end_tournament" =>
             /\ tournament'.status = "COMPLETED"
             /\ rankings' \in update_rankings(participants, rankings)]_vars

(***************************************************************************)
(* update_rankings under concurrent requests.  Each request owns a         *)
(* session.  A ranking pass reads the participants in one query (line      *)
(* 191), then queries the ranking row of each participant in turn (line    *)
(* 197) and sets its fields, and commits at the end (line 210).  Every     *)
(* query sees what is committed at that moment (READ COMMITTED, the        *)
(* engine sets no isolation level and the code takes no lock); the commit  *)
(* writes, for each row, the attributes whose value differs from the       *)
(* value the session loaded.                                               *)
(***************************************************************************)
RankFields ==
    {"rank", "total_pnl", "roi", "total_trades", "win_rate", "current_balance"}

\* lines 203-208
SetRanking(ranking, rank, participant) ==
    [ranking EXCEPT !.rank = rank,
                    !.total_pnl = participant.total_pnl,
                    !.roi = roi(participant),
                    !.total_trades = participant.total_trades,
                    !.win_rate = win_rate(participant),
                    !.current_balance = participant.current_balance]

\* the UPDATE the unit of work emits for one row
FlushRow(db, loaded, new) ==
    [f \in DOMAIN db |->
        IF f \in RankFields /\ new[f] # loaded[f] THEN new[f] ELSE db[f]]

\* update_participant_stats lines 169-176: update the statistics and commit
StatsCommit(p, u, trade_pnl) ==
    LET found == ParticipantsOfUser(participants, u)
    IN  /\ sess[p] = Idle
        /\ found # {}
        /\ participants[First(found)].total_trades < MaxTrades
        /\ participants' =
              [participants EXCEPT ![First(found)] = update_stats(@, trade_pnl)]
        /\ sess' = [sess EXCEPT ![p] = [pc |-> "rank_query", ending |-> FALSE]]
        /\ trade_pnls' = RecordTrade(trade_pnls, participants[First(found)], trade_pnl)
        /\ UNCHANGED <<wallets, orders, positions, nextOrderId, last, rankings,
                       current_participants, joinClock, tournament, teams, members,
                       candleVars, wsVars>>

\* end_tournament lines 319-326: set the status in the session and call
\* update_rankings
EndBegin(p) ==
    /\ sess[p] = Idle
    /\ participants # << >>
    /\ tournament.status # "COMPLETED"
    /\ sess' = [sess EXCEPT ![p] = [pc |-> "rank_query", ending |-> TRUE]]
    /\ UNCHANGED <<wallets, orders, positions, nextOrderId, last, tourVars,
                   candleVars, wsVars, trade_pnls>>

\* update_rankings lines 191-193: the participants, read once
RankQuery(p) ==
    /\ sess[p].pc = "rank_query"
    /\ \E o \in Orderings(participants) :
          sess' = [sess EXCEPT ![p] =
                     [pc |-> "rank_loop", ending |-> sess[p].ending,
                      snap |-> [i \in 1..Len(participants) |-> participants[o[i]]],
                      k |-> 1, loaded |-> << >>, new |-> << >>]]
    /\ UNCHANGED <<wallets, orders, positions, nextOrderId, last, tourVars,
                   candleVars, wsVars, trade_pnls>>

\* one round of the loop, lines 196-208
RankLoad(p) ==
    /\ sess[p].pc = "rank_loop"
    /\ sess[p].k <= Len(sess[p].snap)
    /\ LET s == sess[p]
           part == s.snap[s.k]
           rows == IF part.user_id = None THEN {}
                   ELSE RankingsOfUser(rankings, part.user_id[1])
       IN  IF rows = {}
           THEN sess' = [sess EXCEPT ![p].k = @ + 1]
           ELSE LET u == part.user_id[1]
                    seen == u \in DOMAIN s.loaded
                    row == IF seen THEN s.new[u] ELSE rankings[First(rows)]
                IN  sess' = [sess EXCEPT ![p] =
                       [s EXCEPT !.k = @ + 1,
                                 !.loaded = IF seen THEN @
                                            ELSE DictPut(@, u, rankings[First(rows)]),
                                 !.new = DictPut(@, u, SetRanking(row, s.k, part))]]
    /\ UNCHANGED <<wallets, orders, positions, nextOrderId, last, tourVars,
                   candleVars, wsVars, trade_pnls>>

\* line 210: commit
RankCommit(p) ==
    /\ sess[p].pc = "rank_loop"
    /\ sess[p].k > Len(sess[p].snap)
    /\ LET s == sess[p] IN
       /\ rankings' =
             [i \in DOMAIN rankings |->
                LET u == rankings[i].user_id
                IN  IF u \in DOMAIN s.loaded /\ i = First(RankingsOfUser(rankings, u))
                    THEN FlushRow(rankings[i], s.loaded[u], s.new[u])
                    ELSE rankings[i]]
       /\ tournament' = IF s.ending THEN [tournament EXCEPT !.status = "COMPLETED"]
                        ELSE tournament
       /\ last' = [op |-> "update_rankings", user_id |-> 0, result |-> TRUE,
                   snap |-> s.snap]
    /\ sess' = [sess EXCEPT ![p] = Idle]
    /\ UNCHANGED <<wallets, orders, positions, nextOrderId, participants,
                   current_participants, joinClock, teams, members, candleVars, wsVars, trade_pnls>>

\* the participants are registered before the concurrent requests start
NextRank ==
    \/ \E u \in TUsers :
          (\A p \in Procs : sess[p] = Idle) /\ add_participant_to_tournament(u, None)
    \/ \E p \in Procs, u \in TUsers, pnl \in TradePnls : StatsCommit(p, u, pnl)
    \/ \E p \in Procs : EndBegin(p)
    \/ \E p \in Procs : RankQuery(p)
    \/ \E p \in Procs : RankLoad(p)
    \/ \E p \in Procs : RankCommit(p)

SpecRank == Init /\ [][NextRank]_vars

\* C29: the ranking recompute is snapshot-consistent under concurrency --
\* when a ranking pass that ran concurrently with statistics updates or with
\* another ranking pass has committed and no other pass is in flight, the
\* stored ranks are a permutation of 1..N and order the participants as the
\* one snapshot the pass read.
C29_SnapshotConsistent ==
    (last.op = "update_rankings" /\ \A p \in Procs : sess[p] = Idle) =>
        /\ {rankings[k].rank : k \in DOMAIN rankings} = 1..Len(rankings)
        /\ \A i \in DOMAIN last.snap :
              \A k \in RankingsOfUser(rankings, last.snap[i].user_id[1]) :
                 rankings[k].rank = i

(***************************************************************************)
(* Ranking rows against participant rows                                   *)
(***************************************************************************)
\* the participant rows a ranking row stands for: same tournament, same user
ParticipantsRanked(ranking) ==
    {i \in DOMAIN participants : participants[i].user_id = Some(ranking.user_id)}

\* the ranking rows of a participant row; a team row (user_id None) has none
RankingsFor(participant) ==
    {k \in DOMAIN rankings : participant.user_id = Some(rankings[k].user_id)}

\* C30: the ranking is a projection of the participants -- immediately after
\* update_rankings every ranking row carries the total_pnl, total_trades and
\* current_balance of the participant row of the same user, and ranking rows
\* and participant rows correspond one to one.
C30_RankingProjection ==
    RankingsJustUpdated =>
        /\ \A k \in DOMAIN rankings :
              /\ Cardinality(ParticipantsRanked(rankings[k])) = 1
              /\ \A i \in ParticipantsRanked(rankings[k]) :
                    /\ rankings[k].total_pnl = participants[i].total_pnl
                    /\ rankings[k].total_trades = participants[i].total_trades
                    /\ rankings[k].current_balance = participants[i].current_balance
        /\ \A i \in DOMAIN participants :
              Cardinality(RankingsFor(participants[i])) = 1

(***************************************************************************)
(* Candle rollover                                                         *)
(***************************************************************************)
\* the tick a process_tick step has just processed
TickJustProcessed == ticks'[Len(ticks')]
ProcessTickStep == Len(ticks') = Len(ticks) + 1

\* C31: candle rollover -- process_tick returns a completed candle exactly
\* when the symbol has an in-progress candle and the tick's interval start is
\* strictly greater than that candle's; the candle returned is the in-progress
\* candle as it was before the tick, and the new in-progress candle starts at
\* the tick's interval with open = high = low = close = the tick price.
C31_CandleRollover ==
    [][ProcessTickStep =>
          LET t == TickJustProcessed
              iv == get_candle_timestamp(t.timestamp)
              rolls == /\ t.symbol \in DOMAIN current_candles
                       /\ iv > current_candles[t.symbol].timestamp
          IN  /\ (t.completed_candle # None) <=> rolls
              /\ rolls =>
                    /\ t.completed_candle = Some(current_candles[t.symbol])
                    /\ current_candles'[t.symbol].timestamp = iv
                    /\ current_candles'[t.symbol].open = t.price
                    /\ current_candles'[t.symbol].high = t.price
                    /\ current_candles'[t.symbol].low = t.price
                    /\ current_candles'[t.symbol].close = t.price
       ]_vars

\* a candle built from two ticks (open 100, low 90) has been completed by a
\* tick of a later interval, and a later tick of the same interval was folded
C31_Witness ==
    /\ Len(ticks) = 4
    /\ ticks[3].completed_candle # None
    /\ ticks[3].completed_candle[1].open = 100
    /\ ticks[3].completed_candle[1].low = 90
    /\ ticks[3].price = 110
    /\ ticks[4].completed_candle = None
    /\ get_candle_timestamp(ticks[4].timestamp) = get_candle_timestamp(ticks[3].timestamp)
    /\ current_candles["NIFTY"].timestamp = get_candle_timestamp(ticks[3].timestamp)

(***************************************************************************)
(* Candle volume                                                           *)
(***************************************************************************)
\* the ticks of the same symbol that came before tick i
EarlierTicks(i) == {j \in DOMAIN ticks : j < i /\ ticks[j].symbol = ticks[i].symbol}

\* what tick i contributes: the growth of the symbol's cumulative volume since
\* the symbol's previous tick, 0 for its first tick or when the volume fell
Contribution(i) ==
    IF EarlierTicks(i) = {} THEN 0
    ELSE Max(0, ticks[i].volume - ticks[Latest(EarlierTicks(i))].volume)

RECURSIVE SumContributions(_)
SumContributions(S) ==
    IF S = {} THEN 0
    ELSE LET i == CHOOSE i \in S : TRUE
         IN  Contribution(i) + SumContributions(S \ {i})

\* the tick that started the candle in progress just before position n: the
\* symbol's last tick before n that was its first or that completed a candle
StartTick(symbol, n) ==
    Latest({i \in TicksOf(symbol) :
               /\ i < n
               /\ \/ ticks[i].completed_candle # None
                  \/ \A j \in TicksOf(symbol) : i <= j})

\* the ticks folded into the candle in progress just before position n
FoldedBefore(symbol, n) ==
    {i \in TicksOf(symbol) : StartTick(symbol, n) <= i /\ i < n}

\* C32: delta-accounted volume -- a tick contributes max(0, cumulative volume
\* minus the symbol's last seen cumulative volume), 0 for the symbol's first
\* tick or after a reset; every candle's volume, in progress or completed, is
\* non-negative and is the sum of the contributions of the ticks folded into
\* it, which for a feed in time order are exactly the ticks of its interval.
C32_DeltaVolume ==
    /\ \A symbol \in DOMAIN current_candles :
          LET c == current_candles[symbol]
              n == Len(ticks) + 1
          IN  /\ c.volume >= 0
              /\ c.volume = SumContributions(FoldedBefore(symbol, n))
              /\ InOrder(symbol) =>
                    c.volume = SumContributions(TicksIn(symbol, c.timestamp, n))
    /\ \A i \in DOMAIN ticks :
          ticks[i].completed_candle # None =>
             LET c == ticks[i].completed_candle[1]
                 symbol == ticks[i].symbol
             IN  /\ c.volume >= 0
                 /\ c.volume = SumContributions(FoldedBefore(symbol, i))
                 /\ InOrder(symbol) =>
                       c.volume = SumContributions(TicksIn(symbol, c.timestamp, i))

\* NIFTY's cumulative volume went 0, 10, 0 (a reset), 10 within one interval
\* while BANKNIFTY was not yet seen: the candle holds 10 + 0 + 10
C32_Witness ==
    /\ Len(ticks) = 4
    /\ \A i \in 1..4 : ticks[i].symbol = "NIFTY" /\ ticks[i].timestamp = 30
    /\ ticks[1].volume = 0 /\ ticks[2].volume = 10
    /\ ticks[3].volume = 0 /\ ticks[4].volume = 10
    /\ current_candles["NIFTY"].volume = 20

(***************************************************************************)
(* Candle time                                                             *)
(***************************************************************************)
\* C36: candle time never goes backwards -- across a process_tick call the
\* interval start of every symbol's in-progress candle does not decrease and
\* the candles of the other symbols are left as they were; a tick of an
\* interval earlier than its symbol's in-progress candle completes nothing
\* and is folded into that candle: same interval and open, high and low
\* extended to the price, close the price, volume grown by the tick's delta.
C36_CandleTimeMonotone ==
    [][ProcessTickStep =>
          LET t == TickJustProcessed
              s == t.symbol
              iv == get_candle_timestamp(t.timestamp)
              before == {j \in DOMAIN ticks : ticks[j].symbol = s}
          IN  /\ DOMAIN current_candles' = DOMAIN current_candles \cup {s}
              /\ \A x \in DOMAIN current_candles :
                    current_candles'[x].timestamp >= current_candles[x].timestamp
              /\ \A x \in DOMAIN current_candles \ {s} :
                    current_candles'[x] = current_candles[x]
              /\ (s \in DOMAIN current_candles /\ iv < current_candles[s].timestamp) =>
                    LET old == current_candles[s]
                        new == current_candles'[s]
                        delta == Max(0, t.volume - ticks[Latest(before)].volume)
                    IN  /\ t.completed_candle = None
                        /\ new.timestamp = old.timestamp
                        /\ new.open = old.open
                        /\ new.high = Max(old.high, t.price)
                        /\ new.low = Min(old.low, t.price)
                        /\ new.close = t.price
                        /\ new.volume = old.volume + delta
       ]_vars

\* NIFTY's candle of interval 120 received a tick stamped 30 after a
\* BANKNIFTY tick: it keeps its interval and open and takes the late price
C36_Witness ==
    /\ Len(ticks) = 3
    /\ ticks[1].symbol = "NIFTY" /\ ticks[1].timestamp = 125 /\ ticks[1].price = 110
    /\ ticks[2].symbol = "BANKNIFTY" /\ ticks[2].timestamp = 125
    /\ ticks[3].symbol = "NIFTY" /\ ticks[3].timestamp = 30 /\ ticks[3].price = 90
    /\ ticks[3].volume = 10 /\ ticks[1].volume = 0
    /\ ticks[3].completed_candle = None
    /\ current_candles["NIFTY"] =
          [timestamp |-> 120000, open |-> 110, high |-> 110, low |-> 90,
           close |-> 90, volume |-> 10]
    /\ current_candles["BANKNIFTY"].timestamp = 120000

(***************************************************************************)
(* Mark-to-market (PaperTradingEngine.update_positions_prices).  The price  *)
(* service answers each symbol with a price, with None, or by raising; the  *)
(* row attributes set before an exception are lost with the session.        *)
(***************************************************************************)
MarkSymbols == {"NIFTY", "BANKNIFTY"}
MarkPrices  == {0, 120}
\* zerodha.get_current_price for one symbol
QuoteAnswers ==
    {[raised |-> TRUE, price |-> None]} \cup
    {[raised |-> FALSE, price |-> a] : a \in {None} \cup {Some(x) : x \in MarkPrices}}
MarkOrders ==
    { od \in [symbol : MarkSymbols, instrument_type : InstrumentTypesTraded,
              order_type : {"MARKET"}, order_side : OrderSide,
              quantity : {10}, price : {None}] : TRUE }

\* PaperTradingEngine._get_market_price: an exception becomes None
get_market_price(answer) == IF answer.raised THEN None ELSE answer.price

\* PaperPosition.update_current_price(new_price), yesterday_close not given
update_current_price(p, new_price) ==
    LET p1 == [p EXCEPT !.ltp = Some(new_price), !.current_price = Some(new_price)]
        u  == calculate_unrealized_pnl(p1)
    IN  IF u.raised
        THEN [raised |-> TRUE, row |-> p1, pnl |-> None]
        ELSE [raised |-> FALSE, row |-> [p1 EXCEPT !.unrealized_pnl = u.value],
              pnl |-> Some(RAdd(p1.realized_pnl, u.value))]

\* the loop body of update_positions_prices on one row
MarkRow(p, answer) ==
    LET current_price == get_market_price(answer)
    IN  IF Truthy(current_price) THEN update_current_price(p, current_price[1])
        ELSE [raised |-> FALSE, row |-> p, pnl |-> None]

update_positions_prices(u, quotes) ==
    LET rows == {i \in DOMAIN positions : positions[i].user_id = u}
        raised == \E i \in rows : MarkRow(positions[i], quotes[positions[i].symbol]).raised
    IN  /\ positions' =
              IF raised THEN positions
              ELSE [i \in DOMAIN positions |->
                      IF i \in rows
                      THEN MarkRow(positions[i], quotes[positions[i].symbol]).row
                      ELSE positions[i]]
        /\ last' = [op |-> "update_positions_prices", user_id |-> u,
                    quotes |-> quotes,
                    result |-> IF raised THEN "AttributeError" ELSE "ok"]
        /\ UNCHANGED <<wallets, orders, nextOrderId, sess, tourVars, candleVars, wsVars, trade_pnls>>

NextMark ==
    \/ \E u \in Users, od \in MarkOrders : place_order(u, od, Some(100))
    \/ \E u \in Users, quotes \in [MarkSymbols -> QuoteAnswers] :
          update_positions_prices(u, quotes)

SpecMark == Init /\ [][NextMark]_vars

\* the rows of the user a mark-to-market call has a price for, and the others
Quoted(i) ==
    /\ positions[i].user_id = last'.user_id
    /\ Truthy(get_market_price(last'.quotes[positions[i].symbol]))
Unquoted(i) ==
    /\ positions[i].user_id = last'.user_id
    /\ ~Truthy(get_market_price(last'.quotes[positions[i].symbol]))
QuoteFor(i) == get_market_price(last'.quotes[positions[i].symbol])

C34_PriceUnavailableNonFatal ==
    [][(last'.op = "update_positions_prices" /\ \E i \in DOMAIN positions : Unquoted(i)) =>
          /\ last'.result = "ok"
          /\ \A i \in DOMAIN positions :
                /\ Unquoted(i) =>
                      /\ positions'[i].ltp = positions[i].ltp
                      /\ positions'[i].current_price = positions[i].current_price
                      /\ positions'[i].unrealized_pnl = positions[i].unrealized_pnl
                /\ Quoted(i) =>
                      /\ positions'[i].ltp = QuoteFor(i)
                      /\ positions'[i].current_price = QuoteFor(i)
       ]_vars

(***************************************************************************)
(* Market-data subscriptions (websocket/manager.py, websocket/handlers.py,  *)
(* services/ticker_service.py).  The ticker service is configured; a client *)
(* that subscribes sends the instrument token of the symbol.  The handlers  *)
(* change the dicts before their first await, so each runs as one step.     *)
(***************************************************************************)
WsUsers   == {1, 2}
WsSymbols == {"NIFTY", "BANKNIFTY"}
InstrumentToken == [symbol \in WsSymbols |->
                       IF symbol = "NIFTY" THEN 256265 ELSE 260105]

\* del d[k]
DictDel(d, k) ==
    IF DOMAIN d \ {k} = {} THEN << >> ELSE [x \in DOMAIN d \ {k} |-> d[x]]

\* list.remove(x): drops the first occurrence
ListRemove(l, x) ==
    LET i == CHOOSE i \in DOMAIN l : l[i] = x /\ \A j \in DOMAIN l : l[j] = x => i <= j
    IN  SubSeq(l, 1, i - 1) \o SubSeq(l, i + 1, Len(l))
InList(l, x) == \E i \in DOMAIN l : l[i] = x

\* ConnectionManager.subscribe
manager_subscribe(subs, user_id, symbol) ==
    DictPut(subs, symbol,
            (IF symbol \in DOMAIN subs THEN subs[symbol] ELSE {}) \cup {user_id})

\* ConnectionManager.unsubscribe
manager_unsubscribe(subs, user_id, symbol) ==
    IF symbol \in DOMAIN subs /\ user_id \in subs[symbol]
    THEN IF subs[symbol] \ {user_id} = {} THEN DictDel(subs, symbol)
         ELSE DictPut(subs, symbol, subs[symbol] \ {user_id})
    ELSE subs

\* the subscription loop of ConnectionManager.disconnect
DropUser(subs, user_id) ==
    LET kept == {symbol \in DOMAIN subs : subs[symbol] \ {user_id} # {}}
    IN  IF kept = {} THEN << >> ELSE [symbol \in kept |-> subs[symbol] \ {user_id}]

\* ZerodhaTickerService.unsubscribe on the service's list and two dicts
ticker_unsubscribe(tokens, s2t, t2s, symbol) ==
    IF symbol \notin DOMAIN s2t \/ s2t[symbol] = 0
    THEN [subscribed_tokens |-> tokens, symbol_to_token |-> s2t, token_to_symbol |-> t2s]
    ELSE LET instrument_token == s2t[symbol]
         IN  [subscribed_tokens |-> IF InList(tokens, instrument_token)
                                    THEN ListRemove(tokens, instrument_token)
                                    ELSE tokens,
              symbol_to_token |-> DictDel(s2t, symbol),
              \* del of a missing key raises KeyError, caught by the handler
              token_to_symbol |-> IF instrument_token \in DOMAIN t2s
                                  THEN DictDel(t2s, instrument_token) ELSE t2s]

\* the websocket endpoint accepts an authenticated user (manager.connect)
ws_connect(user_id) ==
    /\ user_id \notin active_connections
    /\ active_connections' = active_connections \cup {user_id}
    /\ last' = [op |-> "connect", user_id |-> user_id]
    /\ UNCHANGED <<subscriptions, subscribed_tokens, symbol_to_token, token_to_symbol>>
    /\ UNCHANGED <<tradeVars, tourVars, candleVars, trade_pnls>>

\* ConnectionManager.disconnect: the socket closed or a send to it failed
ws_disconnect(user_id) ==
    /\ user_id \in active_connections
    /\ active_connections' = active_connections \ {user_id}
    /\ subscriptions' = DropUser(subscriptions, user_id)
    /\ last' = [op |-> "disconnect", user_id |-> user_id]
    /\ UNCHANGED <<subscribed_tokens, symbol_to_token, token_to_symbol>>
    /\ UNCHANGED <<tradeVars, tourVars, candleVars, trade_pnls>>

\* handle_subscribe for a message of a connected user; instrument_token is
\* None when the message carries none
handle_subscribe(user_id, symbol, instrument_token) ==
    /\ user_id \in active_connections
    /\ IF ~Truthy(instrument_token)
       THEN UNCHANGED wsVars
       ELSE /\ subscriptions' = manager_subscribe(subscriptions, user_id, symbol)
            /\ symbol_to_token' = DictPut(symbol_to_token, symbol, instrument_token[1])
            /\ token_to_symbol' = DictPut(token_to_symbol, instrument_token[1], symbol)
            /\ subscribed_tokens' =
                  IF InList(subscribed_tokens, instrument_token[1])
                  THEN subscribed_tokens
                  ELSE Append(subscribed_tokens, instrument_token[1])
            /\ UNCHANGED active_connections
    /\ last' = [op |-> "subscribe", user_id |-> user_id, symbol |-> symbol,
                result |-> Truthy(instrument_token)]
    /\ UNCHANGED <<tradeVars, tourVars, candleVars, trade_pnls>>

\* handle_unsubscribe for a message of a connected user
handle_unsubscribe(user_id, symbol) ==
    /\ user_id \in active_connections
    /\ subscriptions' = manager_unsubscribe(subscriptions, user_id, symbol)
    /\ LET r == ticker_unsubscribe(subscribed_tokens, symbol_to_token,
                                   token_to_symbol, symbol)
       IN  /\ subscribed_tokens' = r.subscribed_tokens
           /\ symbol_to_token' = r.symbol_to_token
           /\ token_to_symbol' = r.token_to_symbol
    /\ last' = [op |-> "unsubscribe", user_id |-> user_id, symbol |-> symbol,
                result |-> TRUE]
    /\ UNCHANGED active_connections
    /\ UNCHANGED <<tradeVars, tourVars, candleVars, trade_pnls>>

NextWs ==
    \/ \E user_id \in WsUsers : ws_connect(user_id)
    \/ \E user_id \in WsUsers : ws_disconnect(user_id)
    \/ \E user_id \in WsUsers, symbol \in WsSymbols :
          \E instrument_token \in {None, Some(InstrumentToken[symbol])} :
             handle_subscribe(user_id, symbol, instrument_token)
    \/ \E user_id \in WsUsers, symbol \in WsSymbols : handle_unsubscribe(user_id, symbol)

SpecWs == Init /\ [][NextWs]_vars

\* the connected users the manager lists as subscribers of a symbol
Subscribers(symbol) ==
    IF symbol \in DOMAIN subscriptions
    THEN subscriptions[symbol] \cap active_connections ELSE {}

\* C35: the shared market-data subscription is kept alive -- while at least
\* one connected user is subscribed to a symbol in the ConnectionManager, the
\* symbol's instrument token is in the ticker service's subscribed_tokens; an
\* unsubscribe message of another user for the symbol does not remove it.
C35_SharedSubscriptionKept ==
    \A symbol \in WsSymbols :
       Subscribers(symbol) # {} => InList(subscribed_tokens, InstrumentToken[symbol])

(***************************************************************************)
(* update_stats called on a participant row any number of times            *)
(***************************************************************************)
MaxStatCalls == 3

\* TournamentParticipant.update_stats on the row of user u
update_stats_call(u, trade_pnl) ==
    LET found == ParticipantsOfUser(participants, u)
    IN  /\ found # {}
        /\ participants[First(found)].total_trades < MaxStatCalls
        /\ participants' =
              [participants EXCEPT ![First(found)] = update_stats(@, trade_pnl)]
        /\ trade_pnls' = RecordTrade(trade_pnls, participants[First(found)], trade_pnl)
        /\ last' = [op |-> "update_stats", user_id |-> u, result |-> TRUE,
                    trade_pnl |-> trade_pnl]
        /\ UNCHANGED <<rankings, current_participants, joinClock, tournament,
                       teams, members>>
        /\ NoTrade

NextStats ==
    \/ \E u \in TUsers, sb \in CustomBalances : add_participant_to_tournament(u, sb)
    \/ \E u \in TUsers, pnl \in TradePnls : update_stats_call(u, pnl)

SpecStats == Init /\ [][NextStats]_vars

\* the trade P&Ls recorded for a row, and their sum
TradesOf(p) ==
    IF p.joined_at \in DOMAIN trade_pnls THEN trade_pnls[p.joined_at] ELSE << >>
RECURSIVE SumPnls(_)
SumPnls(sq) == IF sq = << >> THEN 0 ELSE Head(sq) + SumPnls(Tail(sq))

\* C37: participant bookkeeping -- after any sequence of update_stats calls
\* on a participant, current_balance - starting_balance equals total_pnl,
\* total_pnl equals the sum of the trade P&Ls recorded for it, and
\* winning_trades + losing_trades does not exceed total_trades.
C37_ParticipantBookkeeping ==
    \A i \in DOMAIN participants :
       LET p == participants[i]
       IN  /\ p.current_balance - p.starting_balance = p.total_pnl
           /\ p.total_pnl = SumPnls(TradesOf(p))
           /\ p.total_trades = Len(TradesOf(p))
           /\ p.winning_trades + p.losing_trades <= p.total_trades

\* a participant added with a custom balance has a win, a flat trade and a
\* loss behind it while another participant has not traded
C37_Witness ==
    /\ Len(participants) = 2
    /\ \E i, j \in DOMAIN participants :
          /\ participants[i].starting_balance = 50000
          /\ TradesOf(participants[i]) = <<100, 0, -100>>
          /\ participants[i].winning_trades = 1
          /\ participants[i].losing_trades = 1
          /\ participants[i].total_trades = 3
          /\ participants[i].current_balance = 50000
          /\ participants[j].total_trades = 0

(***************************************************************************)
(* Teams: creation, joining, leaving and captaincy                         *)
(***************************************************************************)
TeamUsers == {1, 2, 3}

NextTeam ==
    \/ \E u \in TeamUsers : create_team(u)
    \/ \E t \in TeamIds, u \in TeamUsers : join_team(t, u)
    \/ \E t \in TeamIds, u \in TeamUsers : leave_team(t, u)
    \/ \E t \in TeamIds, a, b \in TeamUsers : transfer_captaincy(t, a, b)

SpecTeam == InitTour /\ [][NextTeam]_vars

\* C38: team size bookkeeping -- after any sequence of create_team,
\* join_team, leave_team and transfer_captaincy calls every existing team's
\* total_members is the number of its TeamMember rows, is at least 1 and at
\* most the tournament's team_size, and no user is an active member of more
\* than one team of the tournament.
C38_TeamSizeBookkeeping ==
    /\ \A i \in DOMAIN teams :
          /\ teams[i].total_members =
                Cardinality({m \in members : m.team_id = teams[i].id})
          /\ teams[i].total_members >= 1
          /\ teams[i].total_members <= tournament.team_size[1]
    /\ \A m, n \in members : m.user_id = n.user_id => m.team_id = n.team_id

\* two teams exist, one full after a change of captain and the departure and
\* return of a member, and the last call was a refused attempt to join it
C38_Witness ==
    /\ Len(teams) = 2
    /\ \E i, j \in DOMAIN teams :
          /\ teams[i].total_members = 2 /\ teams[i].is_full
          /\ teams[i].captain_id = 2
          /\ [team_id |-> teams[i].id, user_id |-> 1, role |-> "MEMBER"] \in members
          /\ teams[j].total_members = 1 /\ teams[j].captain_id = 3
          /\ last = [op |-> "join_team", user_id |-> 3, team_id |-> teams[i].id,
                     result |-> "AlreadyInTeam"]

(***************************************************************************)
(* Capacity of a tournament that limits its participants                   *)
(***************************************************************************)
CapLimits == {1, 2}

InitCap ==
    /\ TradeInit /\ CandleInit /\ WsInit /\ trade_pnls = << >>
    /\ participants = << >>
    /\ rankings = << >>
    /\ current_participants = 0
    /\ joinClock = 0
    /\ \E ty \in TournamentType, mp \in CapLimits :
          tournament = [tournament_type |-> ty, status |-> "REGISTRATION_OPEN",
                        team_size |-> IF ty = "TEAM" THEN Some(2) ELSE None,
                        max_participants |-> Some(mp),
                        starting_balance |-> 100000,
                        before_deadline |-> TRUE]
    /\ teams = << >>
    /\ members = {}

NextCap ==
    \/ \E u \in TUsers : join_tournament(u)
    \/ \E u \in TUsers, sb \in CustomBalances : add_participant_to_tournament(u, sb)
    \/ \E u \in TUsers : remove_participant_from_tournament(u)
    \/ \E u \in TUsers : create_team(u)
    \/ \E t \in TeamIds, u \in TUsers : join_team(t, u)
    \/ \E t \in TeamIds : register_team_for_tournament(t)

SpecCap == InitCap /\ [][NextCap]_vars

\* C39: tournament capacity -- for a tournament with max_participants set,
\* across join_tournament, register_team_for_tournament, the administrator's
\* add_participant_to_tournament and remove_participant_from_tournament,
\* current_participants is the number of the tournament's participant rows
\* and never exceeds max_participants.
C39_TournamentCapacity ==
    ~IsNone(tournament.max_participants) =>
        /\ current_participants = Len(participants)
        /\ current_participants <= tournament.max_participants[1]

(***************************************************************************)
(* Tournament lifecycle                                                    *)
(***************************************************************************)

\* The call that has just returned is one of the two lifecycle calls.
LifecycleCall == last'.op \in {"start_tournament", "end_tournament"}

\* The call that has just returned is a player's join_tournament.
JoinCall == last'.op = "join_tournament"

\* C40: tournament lifecycle is one-way -- once the stored status is
\* COMPLETED, no start_tournament or end_tournament call moves it to another
\* status, and no join_tournament call adds a participant row.
C40_LifecycleOneWay ==
    [][tournament.status = "COMPLETED" =>
          /\ LifecycleCall => tournament'.status = "COMPLETED"
          /\ JoinCall => participants' = participants]_vars

====
